---- MODULE Spec2Model ----
(***************************************************************************)
(* A model of the Mule workflow engine: class Workflow (addStep, parallel, *)
(* branch, run, runStepExecution), and of lib.ts: the retry and            *)
(* concurrency tunables and the runner runWithConcurrencyLimit.            *)
(*                                                                         *)
(* One JavaScript event loop runs everything.  An action of this module is *)
(* one uninterrupted stretch of engine code between two suspension points  *)
(* (an await on an executor, on an onError handler or on a nested run).    *)
(* Executors, predicates and handlers are user code: an executor's result  *)
(* is the uninterpreted term StepOutput(id, input), its failures, its      *)
(* setState calls and its assignments on the state argument are chosen by  *)
(* the environment.                                                        *)
(***************************************************************************)
EXTENDS Integers, Sequences, FiniteSets, TLC

VARIABLES
  prog,      \* which of the Programs was built (fixed after construction)
  env,       \* raw value of the environment variable MULE_STEP_RETRIES
  wf,        \* fields of every Workflow instance: state, lastOutput, runId, executionContext
  heap,      \* the state objects; Workflow.state and executor arguments are references into it
  runs,      \* activations of Workflow.run(), in call order
  tasks,     \* activations of Workflow.runStepExecution(), in call order
  nextUUID,  \* number of crypto.randomUUID() results handed out so far
  called,    \* whether the caller has invoked run() on the top-level workflow
  concurrencyEnv,  \* raw value of the environment variable MULE_STEP_CONCURRENCY
  runner,    \* the activation of runWithConcurrencyLimit (lib.ts), idle in the engine's runs
  stepRetries,  \* what the last call of getStepRetries (lib.ts) returned, if it was called
  retry503   \* the activation of with503Retry (lib.ts), idle in the engine's runs

vars ==
  <<prog, env, wf, heap, runs, tasks, nextUUID, called, concurrencyEnv, runner, stepRetries,
    retry503>>

----------------------------------------------------------------------------
(* Bounds of the model *)

\* how many times one executor activation may call setState
MaxSetStateCalls == 1
\* how many times one executor activation may assign to a key of its state argument
MaxStateWrites == 1

----------------------------------------------------------------------------
(* JavaScript values *)

Null == [kind |-> "null"]
Undefined == [kind |-> "undefined"]
Num(n) == [kind |-> "num", n |-> n]
\* the object a batch produces: Object.fromEntries(...)
ObjectFromEntries(f) == [kind |-> "object", entries |-> f]
\* what executor `id` returns for `input` (user code, uninterpreted)
StepOutput(id, input) == [kind |-> "output", step |-> id, arg |-> input]

\* a value an executor or a handler throws: an Error instance or anything else
Thrown(isError, message) == [isError |-> isError, message |-> message]
\* what the executors of the programs throw when they fail
ThrownValues == {Thrown(TRUE, "Something went wrong"), Thrown(FALSE, "timeout")}
\* what the onError handlers of the programs throw when they fail themselves
HandlerThrownValues == {Thrown(TRUE, "handler failed"), Thrown(FALSE, "handler timeout")}

Absent == "<absent>"

----------------------------------------------------------------------------
(* lib.ts: getStepRetries *)

Unset == <<"<unset>">>
DEFAULT_STEP_RETRIES == 1

IsSpace(ch) == ch \in {" ", "\t", "\n"}
IsDigit(ch) == ch \in {"0", "1", "2", "3", "4", "5", "6", "7", "8", "9"}
DigitValue(ch) ==
  CASE ch = "0" -> 0 [] ch = "1" -> 1 [] ch = "2" -> 2 [] ch = "3" -> 3
    [] ch = "4" -> 4 [] ch = "5" -> 5 [] ch = "6" -> 6 [] ch = "7" -> 7
    [] ch = "8" -> 8 [] ch = "9" -> 9

RECURSIVE SkipSpace(_)
SkipSpace(s) == IF s /= <<>> /\ IsSpace(Head(s)) THEN SkipSpace(Tail(s)) ELSE s

RECURSIVE DigitPrefix(_, _, _)
\* value of the longest prefix of digits of s, seen is whether a digit was read
DigitPrefix(s, acc, seen) ==
  IF s /= <<>> /\ IsDigit(Head(s))
  THEN DigitPrefix(Tail(s), acc * 10 + DigitValue(Head(s)), TRUE)
  ELSE [nan |-> ~seen, n |-> acc]

\* parseInt(raw, 10) on a string given as its sequence of characters
parseInt(raw) ==
  LET s == SkipSpace(raw)
      neg == s /= <<>> /\ Head(s) = "-"
      body == IF s /= <<>> /\ Head(s) \in {"-", "+"} THEN Tail(s) ELSE s
      d == DigitPrefix(body, 0, FALSE)
  IN  [nan |-> d.nan, n |-> IF neg THEN 0 - d.n ELSE d.n]

\* const raw = Deno.env.get("MULE_STEP_RETRIES"); ... return n
getStepRetries(raw) ==
  IF raw = Unset \/ raw = <<>> THEN DEFAULT_STEP_RETRIES
  ELSE LET n == parseInt(raw)
       IN  IF n.nan \/ n.n < 0 THEN DEFAULT_STEP_RETRIES ELSE n.n

\* the longest value of MULE_STEP_RETRIES tried
MaxRawLen == 3
\* the characters the values of MULE_STEP_RETRIES are made of
RawAlphabet == {"0", "2", "7", "-", " ", "x", "."}
\* the values of MULE_STEP_RETRIES tried: unset, or a string of up to MaxRawLen characters
RawValues == {Unset} \cup UNION {[1..n -> RawAlphabet] : n \in 0..MaxRawLen}
\* stepRetries before any call of getStepRetries, and once a call has returned n
NotCalled == [called |-> FALSE, n |-> 0]
Returned(n) == [called |-> TRUE, n |-> n]

\* the limit argument of runWithConcurrencyLimit when there is none: undefined
NoLimit == [defined |-> FALSE, n |-> 0]
Limit(n) == [defined |-> TRUE, n |-> n]

\* getMaxParallelSteps on the raw value of MULE_STEP_CONCURRENCY
getMaxParallelSteps(raw) ==
  IF raw = Unset \/ raw = <<>> THEN NoLimit
  ELSE LET n == parseInt(raw)
       IN  IF n.nan \/ n.n < 1 THEN NoLimit ELSE Limit(n.n)

----------------------------------------------------------------------------
(* lib.ts: runWithConcurrencyLimit.  Tasks and array positions are numbered *)
(* from 0 as in the code; position i of an array is element i + 1 of the    *)
(* sequence that models it.                                                 *)

\* the largest number of tasks and the largest limit the callers pass
MaxTasks == 3
MaxLimit == 3

RunnerLimits == {NoLimit} \cup {Limit(k) : k \in 0..MaxLimit}

\* what task i resolves with and what it rejects with (user code, uninterpreted)
TaskResult(i) == [kind |-> "result", of |-> i]
TaskError(i) == [kind |-> "error", of |-> i]
\* a position of `new Array(tasks.length)` nothing was assigned to
Hole == [kind |-> "hole"]

IdleRunner ==
  [mode |-> "idle", n |-> 0, limit |-> NoLimit, index |-> 0,
   status |-> <<>>, starts |-> <<>>, value |-> <<>>, results |-> <<>>,
   workers |-> <<>>, outcome |-> "pending", returned |-> <<>>, error |-> Hole,
   \* history: the tasks in the order their promises settled
   order |-> <<>>]

\* tasks[i](): the thunk is called and its promise is pending
StartTask(rn, i) ==
  [rn EXCEPT !.status[i + 1] = "running", !.starts[i + 1] = @ + 1]

\* one call of runNext made by worker w, up to its await or its return
runNext(rn, w) ==
  LET i == rn.index
      taken == [rn EXCEPT !.index = @ + 1]
  IN  IF i >= rn.n
      THEN [taken EXCEPT !.workers[w] = [state |-> "returned", task |-> i]]
      ELSE [StartTask(taken, i) EXCEPT !.workers[w] = [state |-> "awaiting", task |-> i]]

\* mutant: one worker more than the limit
WorkerCount_OneMore(limit) == limit.n + 1

\* Array.from({ length: limit }, ...): how many workers are created
WorkerCount(limit) == limit.n

\* Array.from({ length: limit }, () => runNext()): the workers make their first call
\* of runNext one after the other
RECURSIVE StartWorkers(_, _, _)
StartWorkers(rn, w, count) ==
  IF w > count THEN rn
  ELSE StartWorkers(
         runNext([rn EXCEPT !.workers = Append(@, [state |-> "new", task |-> 0])], w),
         w + 1, count)

\* tasks.map((t) => t())
RECURSIVE StartAll(_, _)
StartAll(rn, i) == IF i >= rn.n THEN rn ELSE StartAll(StartTask(rn, i), i + 1)

\* runWithConcurrencyLimit(tasks, limit) for n tasks, up to its first await
runWithConcurrencyLimit(n, limit) ==
  LET rn == [IdleRunner EXCEPT
               !.n = n, !.limit = limit,
               !.status = [i \in 1..n |-> "pending"],
               !.starts = [i \in 1..n |-> 0],
               !.value = [i \in 1..n |-> Hole]]
  IN  IF ~limit.defined \/ limit.n < 1 \/ n <= limit.n
      THEN StartAll([rn EXCEPT !.mode = "all"], 0)
      ELSE StartWorkers([rn EXCEPT !.mode = "pool", !.results = [i \in 1..n |-> Hole]],
                        1, WorkerCount(limit))

\* mutant: the result is stored at the first free position
StoreResult_FirstFree(results, i, v) ==
  [results EXCEPT ![CHOOSE k \in DOMAIN results :
                      results[k] = Hole /\ \A j \in 1..(k - 1) : results[j] /= Hole] = v]

\* results[i] = v
StoreResult(results, i, v) == [results EXCEPT ![i + 1] = v]

\* the worker that awaits task i
WorkerOf(rn, i) ==
  CHOOSE w \in DOMAIN rn.workers :
    rn.workers[w].state = "awaiting" /\ rn.workers[w].task = i

\* the promise of task i fulfils: under Promise.all its value is kept at position i; in
\* the pool its worker stores it in results[i] and calls runNext again
TaskFulfilled(rn, i) ==
  LET done == [rn EXCEPT !.status[i + 1] = "done", !.value[i + 1] = TaskResult(i),
                         !.order = Append(@, i)]
  IN  IF rn.mode = "all" THEN done
      ELSE runNext([done EXCEPT !.results = StoreResult(@, i, TaskResult(i))],
                   WorkerOf(rn, i))

\* mutant: the worker whose task rejected calls runNext again
TaskRejected_GoesOn(rn, i) ==
  LET failed == [rn EXCEPT !.status[i + 1] = "failed", !.order = Append(@, i)]
      stopped == IF rn.mode = "all" THEN failed ELSE runNext(failed, WorkerOf(rn, i))
  IN  IF rn.outcome = "pending"
      THEN [stopped EXCEPT !.outcome = "rejected", !.error = TaskError(i)]
      ELSE stopped

\* the promise of task i rejects: its worker's runNext chain throws and starts nothing
\* more; Promise.all, and with it the function, rejects with the first such error
TaskRejected(rn, i) ==
  LET failed == [rn EXCEPT !.status[i + 1] = "failed", !.order = Append(@, i)]
      stopped == IF rn.mode = "all" THEN failed
                 ELSE [failed EXCEPT !.workers[WorkerOf(rn, i)].state = "threw"]
  IN  IF rn.outcome = "pending"
      THEN [stopped EXCEPT !.outcome = "rejected", !.error = TaskError(i)]
      ELSE stopped

\* whether the awaited Promise.all is fulfilled
RunnerSettled(rn) ==
  IF rn.mode = "all" THEN \A i \in DOMAIN rn.status : rn.status[i] = "done"
  ELSE \A w \in DOMAIN rn.workers : rn.workers[w].state = "returned"

\* the array the function resolves with
RunnerValue(rn) == IF rn.mode = "all" THEN rn.value ELSE rn.results

----------------------------------------------------------------------------
(* lib.ts: with503Retry *)

MAX_503_RETRIES == 5

\* what is503WithRetryAfter returns: null, or the number of milliseconds to wait
NoRetryAfter == [null |-> TRUE, ms |-> 0]
WaitMs(ms) == [null |-> FALSE, ms |-> ms]
RetryAfterValues == {NoRetryAfter, WaitMs(0), WaitMs(1000)}

\* what the k-th call of fn resolves with and what it rejects with; the error carries
\* what is503WithRetryAfter will return for it
FnResult(k) == [kind |-> "result", of |-> k]
FnError(k, retryAfter) == [kind |-> "error", of |-> k, retryAfter |-> retryAfter]
is503WithRetryAfter(error) == error.retryAfter

IdleRetry ==
  [phase |-> "idle", attempts |-> 0, calls |-> 0, result |-> Hole, error |-> Hole,
   waitMs |-> 0,
   \* history: the errors caught so far
   caught |-> <<>>]

\* return await fn(): fn is called and its promise is pending
callFn(rt) == [rt EXCEPT !.phase = "calling", !.calls = @ + 1]

\* mutant: one retry more is allowed
catch503_OneMore(rt, error) ==
  LET waitMs == is503WithRetryAfter(error)
      seen == [rt EXCEPT !.caught = Append(@, error)]
  IN  IF waitMs.null \/ rt.attempts > MAX_503_RETRIES
      THEN [seen EXCEPT !.phase = "threw", !.error = error]
      ELSE [seen EXCEPT !.attempts = @ + 1, !.phase = "waiting", !.waitMs = waitMs.ms]

\* the catch block: the error is rethrown when it is not a 503 with Retry-After or
\* when MAX_503_RETRIES retries were made, otherwise a timer of waitMs is started
catch503(rt, error) ==
  LET waitMs == is503WithRetryAfter(error)
      seen == [rt EXCEPT !.caught = Append(@, error)]
  IN  IF waitMs.null \/ rt.attempts >= MAX_503_RETRIES
      THEN [seen EXCEPT !.phase = "threw", !.error = error]
      ELSE [seen EXCEPT !.attempts = @ + 1, !.phase = "waiting", !.waitMs = waitMs.ms]

----------------------------------------------------------------------------
(* Steps (createStep) and the builder methods *)

\* an operand of addStep/parallel/branch: a Step, or a Workflow instance (whose own
\* field `id` is the empty string and whose identifier is `workflowId`)
Step(id) == [kind |-> "step", id |-> id, workflowId |-> Absent]
NestedWorkflow(w) == [kind |-> "workflow", id |-> "", workflowId |-> w]

\* steps created with an onError handler
StepsWithOnError == {"H", "PH"}
HasOnError(id) == id \in StepsWithOnError

\* the attempt from which the executor of a step succeeds once it has failed on its
\* first one (a transient fault), 0 when it fails on every attempt
SucceedsAt(id) == IF id \in {"B", "H", "P2", "C1"} THEN 2 ELSE 0

EmptyState == <<>>
NoPartial == EmptyState
\* the partial state an executor passes to setState, if it calls it
StepPartial(id) ==
  CASE id = "A" -> [a |-> 1]
    [] id = "H" -> [h |-> 1]
    [] id = "P1" -> [p |-> 1]
    [] id = "P2" -> [p |-> 2]
    [] id = "C1" -> [c |-> 1]
    [] OTHER -> NoPartial
\* the key an executor assigns directly on its state argument (state.m = 1), if it does
StepMutation(id) ==
  CASE id = "H" -> [m |-> 1]
    [] id = "C1" -> [n |-> 1]
    [] OTHER -> NoPartial

\* step.inputSchema.parse(v) returns rather than throws: the steps A and C1 declare
\* z.number(), the other steps z.any()
InputSchemaAccepts(id, v) == id \in {"A", "C1"} => v.kind = "num"
\* step.outputSchema.parse(out) returns rather than throws: the steps B and P1 return
\* { value: input } and declare z.object({ value: z.number() }), the other steps z.any()
OutputSchemaAccepts(id, out) ==
  id \in {"B", "P1"} => (out.kind = "output" /\ out.arg.kind = "num")
\* workflow.inputSchema.parse(v) returns rather than throws: the top-level workflow
\* declares z.number().max(10), the nested workflows z.any()
WorkflowInputSchemaAccepts(w, v) == w = "main" => (v.kind = "num" /\ v.n <= 10)

\* ToNumber of a value, as the comparison operators of a predicate apply it
ToNumber(v) ==
  CASE v.kind = "num" -> [nan |-> FALSE, n |-> v.n]
    [] v.kind = "null" -> [nan |-> FALSE, n |-> 0]
    [] OTHER -> [nan |-> TRUE, n |-> 0]

\* the branch predicates of the programs, (output) => boolean
Condition(name, v) ==
  LET x == ToNumber(v)
  IN  CASE name = "gt10" -> ~x.nan /\ x.n > 10
        [] name = "lt3" -> ~x.nan /\ x.n < 3
        [] name = "gt0" -> ~x.nan /\ x.n > 0
        [] name = "even" -> ~x.nan /\ x.n % 2 = 0

addStep(steps, step) ==
  Append(steps, [type |-> "sequential", members |-> <<step>>, conds |-> <<>>])
parallel(steps, members) ==
  Append(steps, [type |-> "parallel", members |-> members, conds |-> <<>>])
branch(steps, members, conds) ==
  Append(steps, [type |-> "branch", members |-> members, conds |-> conds])

WorkflowIds == {"main", "child", "inner"}

\* the workflows the callers build, one record of operation lists per program
Programs == <<
  \* only addStep
  [main |-> addStep(addStep(addStep(<<>>, Step("A")), Step("H")), Step("B")),
   child |-> <<>>, inner |-> <<>>],
  \* a parallel batch between two steps
  [main |-> addStep(parallel(addStep(<<>>, Step("A")),
                             <<Step("P1"), Step("PH"), Step("P2")>>), Step("B")),
   child |-> <<>>, inner |-> <<>>],
  \* a branch batch fed by the initial input
  [main |-> addStep(branch(<<>>, <<Step("P1"), Step("P2"), Step("PH")>>,
                           <<"gt10", "lt3", "even">>), Step("B")),
   child |-> <<>>, inner |-> <<>>],
  \* a nested workflow in a sequence
  [main |-> addStep(addStep(addStep(<<>>, Step("A")), NestedWorkflow("child")), Step("B")),
   child |-> addStep(addStep(<<>>, Step("C1")), Step("H")), inner |-> <<>>],
  \* a nested workflow as a member of a parallel batch
  [main |-> addStep(parallel(addStep(<<>>, Step("A")),
                             <<Step("P1"), NestedWorkflow("child")>>), Step("B")),
   child |-> addStep(addStep(<<>>, Step("C1")), Step("C2")), inner |-> <<>>],
  \* a nested workflow inside a nested workflow
  [main |-> addStep(addStep(<<>>, NestedWorkflow("child")), Step("H")),
   child |-> addStep(<<>>, NestedWorkflow("inner")),
   inner |-> addStep(<<>>, Step("C1"))],
  \* two nested workflows and a plain step as the members of one parallel batch
  [main |-> parallel(<<>>, <<Step("P1"), NestedWorkflow("child"), NestedWorkflow("inner")>>),
   child |-> addStep(<<>>, Step("C1")),
   inner |-> addStep(<<>>, Step("H"))],
  \* a parallel batch of steps that share the state: A writes a key of its own, P1 and
  \* P2 write the same key
  [main |-> parallel(<<>>, <<Step("A"), Step("P1"), Step("P2")>>),
   child |-> <<>>, inner |-> <<>>],
  \* a nested workflow of one step
  [main |-> addStep(<<>>, NestedWorkflow("child")),
   child |-> addStep(<<>>, Step("H")), inner |-> <<>>]
>>

\* the programs of the engine's general specification
EnginePrograms == {1, 2, 3, 4, 5, 6}
\* the programs whose only operation is a parallel batch that writes the shared state
BatchPrograms == {7, 8}

Steps(w) == Programs[prog][w]

\* what the caller may pass to run()
RunIds == {"", "test-workflow"}
InitialInputs == {Undefined, Num(5), Num(12)}
NoInitialState == [given |-> FALSE, value |-> EmptyState]
InitialStates == {NoInitialState, [given |-> TRUE, value |-> [seed |-> 1]]}
RetryEnvironments == {Unset, <<"0">>}
\* the environments the process is started in: MULE_STEP_CONCURRENCY is set to 2 where
\* MULE_STEP_RETRIES is unset, and unset where MULE_STEP_RETRIES is 0
ConcurrencyEnvironment(retries) == IF retries = Unset THEN <<"2">> ELSE Unset

\* the state object given to the constructor
DeclaredState == [declared |-> 1]

----------------------------------------------------------------------------
(* The engine.  The operators below are pure: they take the configuration  *)
(* c (the variables the engine writes) and return the configuration after  *)
(* the code they model has run.                                            *)

Config == [tasks |-> tasks, runs |-> runs, wf |-> wf, heap |-> heap, nextUUID |-> nextUUID]

Commit(c) ==
  /\ tasks' = c.tasks
  /\ runs' = c.runs
  /\ wf' = c.wf
  /\ heap' = c.heap
  /\ nextUUID' = c.nextUUID

randomUUID(n) == "uuid-" \o ToString(n)

\* { ...a, ...b }
Spread(a, b) ==
  [k \in (DOMAIN a) \cup (DOMAIN b) |-> IF k \in DOMAIN b THEN b[k] ELSE a[k]]

\* private executionContext = { depth: 0 }
DefaultContext ==
  [parentStepId |-> Absent, executionGroup |-> Absent, executionType |-> Absent, depth |-> 0]

\* mutant: the state of the previous run is kept as the default
StartingState_KeepsPrevious(c, w, initialState) ==
  LET defaultState == c.heap[c.wf[w].state]
  IN  IF initialState.given THEN Spread(defaultState, initialState.value) ELSE defaultState

\* the object run() assigns to this.state:
\* initialState !== undefined ? { ...defaultState, ...initialState } : defaultState
StartingState(c, w, initialState) ==
  LET defaultState == EmptyState
  IN  IF initialState.given THEN Spread(defaultState, initialState.value) ELSE defaultState

\* mutant: lastOutput is assigned only when an initial input is given
run_KeepsLastOutput(c, w, runId, initialInput, initialState, parent) ==
  LET fresh == runId = ""
  IN  [c EXCEPT
        !.wf[w].runId = IF fresh THEN randomUUID(c.nextUUID) ELSE runId,
        !.wf[w].lastOutput = IF initialInput.kind /= "undefined" THEN initialInput ELSE @,
        !.wf[w].state = Len(c.heap) + 1,
        !.heap = Append(@, StartingState(c, w, initialState)),
        !.nextUUID = IF fresh THEN @ + 1 ELSE @,
        !.runs = Append(@, [wf |-> w, phase |-> "ready", pc |-> 1, parent |-> parent,
                            result |-> Undefined, error |-> Undefined,
                            runIdArg |-> runId, initialInput |-> initialInput,
                            initialState |-> initialState, opInputs |-> <<>>,
                            lastOutputAtCall |-> c.wf[w].lastOutput,
                            stateAtCall |-> c.wf[w].state])]

\* the synchronous head of Workflow.run: runId, lastOutput and state are reset and the
\* activation is recorded; `parent` is the runStepExecution activation that called
\* run for a nested workflow, 0 for a call by the user
run(c, w, runId, initialInput, initialState, parent) ==
  LET fresh == runId = ""
  IN  [c EXCEPT
        !.wf[w].runId = IF fresh THEN randomUUID(c.nextUUID) ELSE runId,
        !.wf[w].lastOutput = IF initialInput.kind /= "undefined" THEN initialInput ELSE Null,
        !.wf[w].state = Len(c.heap) + 1,
        !.heap = Append(@, StartingState(c, w, initialState)),
        !.nextUUID = IF fresh THEN @ + 1 ELSE @,
        !.runs = Append(@, [wf |-> w, phase |-> "ready", pc |-> 1, parent |-> parent,
                            result |-> Undefined, error |-> Undefined,
                            \* history: the arguments of the call and the lastOutput
                            \* each operation thunk found when it was called
                            runIdArg |-> runId, initialInput |-> initialInput,
                            initialState |-> initialState, opInputs |-> <<>>,
                            \* history: the lastOutput the call found on the instance
                            lastOutputAtCall |-> c.wf[w].lastOutput,
                            \* history: the state object the call found on the instance
                            stateAtCall |-> c.wf[w].state])]

\* a fresh activation record of runStepExecution
NewTask(r, w, op, step, input, context, stateArg, child) ==
  [run |-> r, wf |-> w, op |-> op, step |-> step, input |-> input, context |-> context,
   status |-> "running", stateArg |-> stateArg, child |-> child,
   result |-> Undefined, error |-> Undefined,
   execCalls |-> IF step.kind = "step" THEN 1 ELSE 0, setCalls |-> 0,
   \* history: assignments made on the state argument, and whether one of them was made
   \* when the argument was no longer the workflow's state object
   writes |-> 0, staleWrite |-> FALSE,
   \* history: the calls of setState and the assignments, in the order they were made
   did |-> <<>>,
   thrown |-> <<>>, stateAtFailure |-> 0, onErrorCalls |-> <<>>]

\* mutant: the run id of the parent is left out
NestedRunId_WorkflowIdOnly(runId, workflowId) == workflowId

\* the run id a nested workflow is run with: `${this.runId}->${step.workflowId}`
NestedRunId(runId, workflowId) == runId \o "->" \o workflowId

\* mutant: the nested workflow is given the depth of its parent
NestedContext_SameDepth(context, workflowId) == [context EXCEPT !.parentStepId = workflowId]

\* the execution context a nested workflow is given:
\* { ...context, parentStepId: step.workflowId, depth: context.depth + 1 }
NestedContext(context, workflowId) ==
  [context EXCEPT !.parentStepId = workflowId, !.depth = context.depth + 1]

\* runStepExecution up to its first await: a nested workflow is aliased to the parent's
\* state, given its execution context and run; a plain step's executor is invoked with
\* the input and the current state object
runStepExecution(c, r, op, step, input, context) ==
  LET w == c.runs[r].wf
      t == Len(c.tasks) + 1
  IN  IF step.kind = "workflow"
      THEN LET cw == step.workflowId
               aliased == [c EXCEPT
                 !.wf[cw].state = c.wf[w].state,
                 !.wf[cw].executionContext = NestedContext(context, cw)]
               started == run(aliased, cw, NestedRunId(c.wf[w].runId, cw), input,
                              NoInitialState, t)
           IN  [started EXCEPT !.tasks =
                  Append(@, NewTask(r, w, op, step, input, context, 0, Len(started.runs)))]
      ELSE [c EXCEPT !.tasks =
              Append(@, NewTask(r, w, op, step, input, context, c.wf[w].state, 0))]

\* the runStepExecution activations a run started for its operation op, in call order
RECURSIVE TasksOf(_, _, _, _)
TasksOf(c, r, op, from) ==
  IF from > Len(c.tasks) THEN <<>>
  ELSE IF c.tasks[from].run = r /\ c.tasks[from].op = op
       THEN <<from>> \o TasksOf(c, r, op, from + 1)
       ELSE TasksOf(c, r, op, from + 1)

\* mutant: every operation is fed the input the run started with
RECURSIVE StartMembers_InitialInput(_, _, _, _, _, _)
StartMembers_InitialInput(c, r, op, members, i, context) ==
  IF i > Len(members) THEN c
  ELSE StartMembers_InitialInput(
         runStepExecution(c, r, op, members[i],
                          IF c.runs[r].initialInput.kind /= "undefined"
                          THEN c.runs[r].initialInput ELSE Null,
                          context),
         r, op, members, i + 1, context)

\* steps.map((step) => this.runStepExecution(step, this.lastOutput, context)): the
\* members are started one after the other, each reading lastOutput when it starts
RECURSIVE StartMembers(_, _, _, _, _, _)
StartMembers(c, r, op, members, i, context) ==
  IF i > Len(members) THEN c
  ELSE StartMembers(
         runStepExecution(c, r, op, members[i], c.wf[c.runs[r].wf].lastOutput, context),
         r, op, members, i + 1, context)

\* mutant: the predicates are ignored, every member is selected
StepsToRun_All(members, conds, v, i) == members

\* conditionalSteps.filter(([_, condition]) => condition(this.lastOutput)).map(([step]) => step)
RECURSIVE StepsToRun(_, _, _, _)
StepsToRun(members, conds, v, i) ==
  IF i > Len(members) THEN <<>>
  ELSE (IF Condition(conds[i], v) THEN <<members[i]>> ELSE <<>>)
       \o StepsToRun(members, conds, v, i + 1)

\* the members a batch operation runs, given the lastOutput it starts from
Selected(operation, v) ==
  IF operation.type = "branch"
  THEN StepsToRun(operation.members, operation.conds, v, 1)
  ELSE operation.members

\* mutant: lastOutput is left as it was
BranchNoMatch_KeepsOutput(c, r) == [c EXCEPT !.runs[r].pc = @ + 1]

\* a branch batch none of whose predicates holds: this.lastOutput = {}; return
BranchNoMatch(c, r) ==
  [c EXCEPT !.wf[c.runs[r].wf].lastOutput = ObjectFromEntries(<<>>),
            !.runs[r].pc = @ + 1]

\* the head of one operation thunk (stepFn), up to its await
StartOperation(c0, r) ==
  LET w == c0.runs[r].wf
      op == c0.runs[r].pc
      operation == Steps(w)[op]
      ctx == c0.wf[w].executionContext
      c == [c0 EXCEPT !.runs[r].opInputs = Append(@, c0.wf[w].lastOutput)]
      waiting == [c EXCEPT !.runs[r].phase = "waiting"]
  IN  CASE operation.type = "sequential" ->
             StartMembers(waiting, r, op, operation.members, 1,
                          [ctx EXCEPT !.executionType = "sequential"])
        [] operation.type = "parallel" ->
             StartMembers([waiting EXCEPT !.nextUUID = @ + 1], r, op, operation.members, 1,
                          [ctx EXCEPT !.executionGroup = randomUUID(c.nextUUID),
                                      !.executionType = "parallel"])
        [] operation.type = "branch" ->
             LET stepsToRun == Selected(operation, c.wf[w].lastOutput)
             IN  IF Len(stepsToRun) = 0
                 THEN BranchNoMatch(c, r)
                 ELSE StartMembers([waiting EXCEPT !.nextUUID = @ + 1], r, op, stepsToRun, 1,
                                   [ctx EXCEPT !.executionGroup = randomUUID(c.nextUUID),
                                               !.executionType = "branch"])

\* mutant: a nested workflow is keyed by its (empty) id field
ParallelKey_Id(s) == s.id

\* the key of a member in the result object of a parallel batch
ParallelKey(s) == IF s.kind = "workflow" THEN s.workflowId ELSE s.id
\* the key of a member in the result object of a branch batch
BranchKey(s) == s.id

\* mutant: entries whose value is undefined are left out
FromEntries_DefinedOnly(keys, results) ==
  [k \in {keys[i] : i \in {j \in DOMAIN keys : results[j] /= Undefined}} |->
     results[CHOOSE i \in DOMAIN keys :
               keys[i] = k /\ \A j \in DOMAIN keys : keys[j] = k => j <= i]]

\* Object.fromEntries over keys[i] -> results[i]: a later entry replaces an earlier one
FromEntries(keys, results) ==
  [k \in {keys[i] : i \in DOMAIN keys} |->
     results[CHOOSE i \in DOMAIN keys :
               keys[i] = k /\ \A j \in DOMAIN keys : keys[j] = k => j <= i]]

\* what an operation assigns to lastOutput once the activations ts have all fulfilled
OperationResult(c, type, ts) ==
  LET results == [i \in DOMAIN ts |-> c.tasks[ts[i]].result]
  IN  CASE type = "sequential" -> results[1]
        [] type = "parallel" ->
             ObjectFromEntries(FromEntries(
               [i \in DOMAIN ts |-> ParallelKey(c.tasks[ts[i]].step)], results))
        [] type = "branch" ->
             ObjectFromEntries(FromEntries(
               [i \in DOMAIN ts |-> BranchKey(c.tasks[ts[i]].step)], results))

\* mutant: Promise.race instead of Promise.all
AllFulfilled_Any(c, ts) == \E i \in DOMAIN ts : c.tasks[ts[i]].status = "fulfilled"

\* whether the awaited promise of an operation (one activation, or Promise.all) is fulfilled
AllFulfilled(c, ts) == \A i \in DOMAIN ts : c.tasks[ts[i]].status = "fulfilled"

\* activation t has just settled: the operation thunk awaiting it resumes.  A rejection
\* rejects the thunk and with it run(); when every awaited activation is fulfilled the
\* thunk assigns lastOutput and run's loop moves to the next operation
Resume(c, t) ==
  LET r == c.tasks[t].run
      w == c.runs[r].wf
      op == c.tasks[t].op
      ts == TasksOf(c, r, op, 1)
  IN  IF c.runs[r].phase /= "waiting" \/ c.runs[r].pc /= op THEN c
      ELSE IF c.tasks[t].status = "rejected"
      THEN [c EXCEPT !.runs[r].phase = "rejected", !.runs[r].error = c.tasks[t].error]
      ELSE IF AllFulfilled(c, ts)
      THEN [c EXCEPT !.wf[w].lastOutput = OperationResult(c, Steps(w)[op].type, ts),
                     !.runs[r].pc = @ + 1,
                     !.runs[r].phase = "ready"]
      ELSE c

Fulfil(c, t, value) ==
  Resume([c EXCEPT !.tasks[t].status = "fulfilled", !.tasks[t].result = value], t)

\* mutant: the rejection is recorded but the awaiting thunk is not resumed
Reject_NotAwaited(c, t, error) ==
  [c EXCEPT !.tasks[t].status = "rejected", !.tasks[t].error = error]

Reject(c, t, error) ==
  Resume([c EXCEPT !.tasks[t].status = "rejected", !.tasks[t].error = error], t)

\* mutant: the state of the nested workflow is not taken back
SyncState_Skip(c, w, cw) == c

\* this.state = step.state, after the run of nested workflow cw has returned
SyncState(c, w, cw) == [c EXCEPT !.wf[w].state = c.wf[cw].state]

\* mutant: the new state object holds the partial state only
setState_Overwrite(c, w, newState) ==
  [c EXCEPT !.heap = Append(@, newState), !.wf[w].state = Len(c.heap) + 1]

\* mutant: the partial state is merged into the state object itself
setState_InPlace(c, w, newState) ==
  [c EXCEPT !.heap[c.wf[w].state] = Spread(@, newState)]

\* const setState = (newState) => { this.state = { ...this.state, ...newState } }
setState(c, w, newState) ==
  [c EXCEPT !.heap = Append(@, Spread(c.heap[c.wf[w].state], newState)),
            !.wf[w].state = Len(c.heap) + 1]

\* error instanceof Error ? error : new Error(String(error))
AsError(error) == IF error.isError THEN error ELSE Thrown(TRUE, error.message)

\* mutant: the run id is left out of the message
StepFailureMessage_NoRunId(runId, stepId, message) ==
  "Step '" \o stepId \o "' failed: " \o message

\* the message of the error raised for a failed step without onError
StepFailureMessage(runId, stepId, message) ==
  "Step '" \o runId \o ":" \o stepId \o "' failed: " \o message

\* mutant: the handler is given the state object the executor was started with
OnErrorData_StateArgument(c, t) ==
  [input |-> c.tasks[t].input, state |-> c.tasks[t].stateArg]

\* the data onError is called with
OnErrorData(c, t) ==
  [input |-> c.tasks[t].input, state |-> c.wf[c.tasks[t].wf].state]

\* mutant: a nested workflow is treated like a plain step
IsWorkflowOperand_Never(step) == FALSE

\* step instanceof Workflow
IsWorkflowOperand(step) == step.kind = "workflow"

\* step.onError: a Workflow object always has its onError method, a plain step has the
\* handler it was created with, if any
OperandHasOnError(step) == step.kind = "workflow" \/ HasOnError(step.id)

\* the catch block of runStepExecution
CatchBlock(c, t, error) ==
  LET err == AsError(error)
      step == c.tasks[t].step
      w == c.tasks[t].wf
  IN  IF IsWorkflowOperand(step) THEN Reject(c, t, err)
      ELSE IF OperandHasOnError(step)
      THEN [c EXCEPT !.tasks[t].status = "handling",
                     !.tasks[t].onErrorCalls =
                        Append(@, [error |-> err, data |-> OnErrorData(c, t)])]
      ELSE Reject(c, t, Thrown(TRUE, StepFailureMessage(c.wf[w].runId, step.id, err.message)))

----------------------------------------------------------------------------
(* Actions *)

\* the values a caller assigns to workflow.lastOutput before run()
PresetOutputs == {Num(42), ObjectFromEntries([count |-> Num(42)])}

\* the caller assigns workflow.lastOutput = v on the instance it has built, before run()
AssignLastOutput(v) ==
  /\ ~called
  /\ wf["main"].lastOutput = Null
  /\ wf' = [wf EXCEPT !["main"].lastOutput = v]
  /\ UNCHANGED <<prog, env, concurrencyEnv, heap, runs, tasks, nextUUID, called, runner, stepRetries, retry503>>

\* the caller invokes run() on the top-level workflow
CallRun(runId, initialInput, initialState) ==
  /\ ~called
  /\ called' = TRUE
  /\ Commit(run(Config, "main", runId, initialInput, initialState, 0))
  /\ UNCHANGED <<prog, env, concurrencyEnv, runner, stepRetries, retry503>>

\* the runs the caller started
TopLevelRuns == {r \in DOMAIN runs : runs[r].parent = 0}

\* the caller invokes run() a second time on the same instance, once the promise of
\* the first call has settled
CallRunAgain(runId, initialInput, initialState) ==
  /\ called
  /\ Cardinality(TopLevelRuns) = 1
  /\ \A r \in TopLevelRuns : runs[r].phase \in {"resolved", "rejected"}
  /\ Commit(run(Config, "main", runId, initialInput, initialState, 0))
  /\ UNCHANGED <<prog, env, concurrencyEnv, called, runner, stepRetries, retry503>>

\* the caller invokes run() directly on the instance w that the top-level workflow
\* uses as a nested workflow, once the run of the top-level workflow has settled
CallRunOn(w, runId, initialInput) ==
  /\ called
  /\ Cardinality(TopLevelRuns) = 1
  /\ \A r \in TopLevelRuns : runs[r].phase \in {"resolved", "rejected"}
  /\ Steps(w) /= <<>>
  /\ Commit(run(Config, w, runId, initialInput, NoInitialState, 0))
  /\ UNCHANGED <<prog, env, concurrencyEnv, called, runner, stepRetries, retry503>>

\* the caller invokes run() again on the top-level workflow while the promise of the
\* first call is still pending
CallRunOverlapping(runId, initialInput, initialState) ==
  /\ called
  /\ Cardinality(TopLevelRuns) = 1
  /\ \A r \in TopLevelRuns : runs[r].phase \notin {"resolved", "rejected"}
  /\ Commit(run(Config, "main", runId, initialInput, initialState, 0))
  /\ UNCHANGED <<prog, env, concurrencyEnv, called, runner, stepRetries, retry503>>

\* run's loop calls the next operation thunk
OperationStart(r) ==
  /\ runs[r].phase = "ready"
  /\ runs[r].pc <= Len(Steps(runs[r].wf))
  /\ Commit(StartOperation(Config, r))
  /\ UNCHANGED <<prog, env, concurrencyEnv, called, runner, stepRetries, retry503>>

\* run's loop is over: return this.lastOutput
RunReturn(r) ==
  /\ runs[r].phase = "ready"
  /\ runs[r].pc > Len(Steps(runs[r].wf))
  /\ runs' = [runs EXCEPT ![r].phase = "resolved", ![r].result = wf[runs[r].wf].lastOutput]
  /\ UNCHANGED <<prog, env, concurrencyEnv, wf, heap, tasks, nextUUID, called, runner, stepRetries, retry503>>

\* mutant: an executor stops once the run it belongs to has rejected
IsExecuting_UntilAbort(t) ==
  /\ tasks[t].step.kind = "step" /\ tasks[t].status = "running"
  /\ runs[tasks[t].run].phase /= "rejected"

\* the executor of activation t has been invoked and its promise is pending
IsExecuting(t) == tasks[t].step.kind = "step" /\ tasks[t].status = "running"

\* a running executor calls setState with its partial state
ExecutorSetState(t) ==
  /\ IsExecuting(t)
  /\ tasks[t].setCalls < MaxSetStateCalls
  /\ DOMAIN StepPartial(tasks[t].step.id) /= {}
  /\ Commit(setState([Config EXCEPT !.tasks[t].setCalls = @ + 1,
                                      !.tasks[t].did = Append(@, "setState")],
                     tasks[t].wf, StepPartial(tasks[t].step.id)))
  /\ UNCHANGED <<prog, env, concurrencyEnv, called, runner, stepRetries, retry503>>

\* a running executor assigns to a key of the state object it was given
ExecutorMutateState(t) ==
  /\ IsExecuting(t)
  /\ tasks[t].writes < MaxStateWrites
  /\ DOMAIN StepMutation(tasks[t].step.id) /= {}
  /\ Commit([Config EXCEPT
               !.heap[tasks[t].stateArg] = Spread(@, StepMutation(tasks[t].step.id)),
               !.tasks[t].writes = @ + 1,
               !.tasks[t].did = Append(@, "write"),
               !.tasks[t].staleWrite = @ \/ tasks[t].stateArg /= wf[tasks[t].wf].state])
  /\ UNCHANGED <<prog, env, concurrencyEnv, called, runner, stepRetries, retry503>>

\* the executor's promise fulfils: runStepExecution returns its output
ExecutorReturn(t) ==
  /\ IsExecuting(t)
  /\ Commit(Fulfil(Config, t, StepOutput(tasks[t].step.id, tasks[t].input)))
  /\ UNCHANGED <<prog, env, concurrencyEnv, called, runner, stepRetries, retry503>>

\* the executor throws (or its promise rejects) with `error`
ExecutorThrow(t, error) ==
  /\ IsExecuting(t)
  /\ Commit(CatchBlock([Config EXCEPT !.tasks[t].thrown = Append(@, error),
                                      !.tasks[t].stateAtFailure = wf[tasks[t].wf].state],
                       t, error))
  /\ UNCHANGED <<prog, env, concurrencyEnv, called, runner, stepRetries, retry503>>

\* mutant: a handled failure passes the step's input on
OnErrorReturn_PassesInput(t) ==
  /\ tasks[t].status = "handling"
  /\ Commit(Fulfil(Config, t, tasks[t].input))
  /\ UNCHANGED <<prog, env, concurrencyEnv, called, runner, stepRetries, retry503>>

\* the onError handler's promise fulfils: runStepExecution returns undefined
OnErrorReturn(t) ==
  /\ tasks[t].status = "handling"
  /\ Commit(Fulfil(Config, t, Undefined))
  /\ UNCHANGED <<prog, env, concurrencyEnv, called, runner, stepRetries, retry503>>

\* the onError handler itself throws: nothing catches it inside runStepExecution
OnErrorThrow(t, error) ==
  /\ tasks[t].status = "handling"
  /\ Commit(Reject(Config, t, error))
  /\ UNCHANGED <<prog, env, concurrencyEnv, called, runner, stepRetries, retry503>>

\* the run of a nested workflow has settled: its runStepExecution resumes, syncing the
\* state back and returning the output, or re-throwing the error
NestedRunSettled(t) ==
  /\ tasks[t].step.kind = "workflow"
  /\ tasks[t].status = "running"
  /\ LET child == runs[tasks[t].child]
     IN  \/ /\ child.phase = "resolved"
            /\ Commit(Fulfil(SyncState(Config, tasks[t].wf, child.wf), t, child.result))
         \/ /\ child.phase = "rejected"
            /\ Commit(CatchBlock(Config, t, child.error))
  /\ UNCHANGED <<prog, env, concurrencyEnv, called, runner, stepRetries, retry503>>

\* everything the engine's actions write, and the engine's inputs
engineVars ==
  <<prog, env, concurrencyEnv, wf, heap, runs, tasks, nextUUID, called, stepRetries, retry503>>

\* a caller invokes runWithConcurrencyLimit with n tasks
RunnerCall(n, limit) ==
  /\ runner.mode = "idle"
  /\ runner' = runWithConcurrencyLimit(n, limit)
  /\ UNCHANGED engineVars

TaskFulfil(i) ==
  /\ i + 1 \in DOMAIN runner.status
  /\ runner.status[i + 1] = "running"
  /\ runner' = TaskFulfilled(runner, i)
  /\ UNCHANGED engineVars

TaskReject(i) ==
  /\ i + 1 \in DOMAIN runner.status
  /\ runner.status[i + 1] = "running"
  /\ runner' = TaskRejected(runner, i)
  /\ UNCHANGED engineVars

\* the awaited Promise.all is fulfilled: the function returns the results
RunnerReturn ==
  /\ runner.mode /= "idle"
  /\ runner.outcome = "pending"
  /\ RunnerSettled(runner)
  /\ runner' = [runner EXCEPT !.outcome = "resolved", !.returned = RunnerValue(runner)]
  /\ UNCHANGED engineVars

Init ==
  /\ prog \in EnginePrograms
  /\ env \in RetryEnvironments
  /\ concurrencyEnv = ConcurrencyEnvironment(env)
  /\ runner = IdleRunner
  /\ heap = <<DeclaredState>>
  /\ wf = [w \in WorkflowIds |->
             [state |-> 1, lastOutput |-> Null, runId |-> "",
              executionContext |-> DefaultContext]]
  /\ runs = <<>>
  /\ tasks = <<>>
  /\ nextUUID = 1
  /\ called = FALSE
  /\ stepRetries = NotCalled
  /\ retry503 = IdleRetry

\* the steps of the engine and of the user code it calls
Engine ==
  \/ \E r \in DOMAIN runs : OperationStart(r)
  \/ \E r \in DOMAIN runs : RunReturn(r)
  \/ \E t \in DOMAIN tasks : ExecutorSetState(t)
  \/ \E t \in DOMAIN tasks : ExecutorMutateState(t)
  \/ \E t \in DOMAIN tasks : ExecutorReturn(t)
  \/ \E t \in DOMAIN tasks, error \in ThrownValues : ExecutorThrow(t, error)
  \/ \E t \in DOMAIN tasks : OnErrorReturn(t)
  \/ \E t \in DOMAIN tasks, error \in HandlerThrownValues : OnErrorThrow(t, error)
  \/ \E t \in DOMAIN tasks : NestedRunSettled(t)

Next ==
  \/ \E runId \in RunIds, initialInput \in InitialInputs, initialState \in InitialStates :
        CallRun(runId, initialInput, initialState)
  \/ Engine

Spec == Init /\ [][Next]_vars

\* the same instance run twice, one run after the other: the workflow with two levels
\* of nesting, both calls with a run id and an initial input
RerunPrograms == {6}
InitRerun == Init /\ prog \in RerunPrograms

NextRerun ==
  \/ \E initialState \in InitialStates : CallRun("test-workflow", Num(5), initialState)
  \/ \E initialState \in InitialStates : CallRunAgain("test-workflow", Num(5), initialState)
  \/ Engine

SpecRerun == InitRerun /\ [][NextRerun]_vars

\* a caller that may assign lastOutput on the instance before the one run() it makes
InitPreset == Init /\ prog \in RerunPrograms

NextPreset ==
  \/ \E v \in PresetOutputs : AssignLastOutput(v)
  \/ \E initialInput \in {Undefined, Num(5)} :
        CallRun("test-workflow", initialInput, NoInitialState)
  \/ Engine

SpecPreset == InitPreset /\ [][NextPreset]_vars

\* a workflow instance run as a nested workflow first and directly by the caller
\* afterwards: program 4, whose workflow child is nested in the top-level workflow
ReusePrograms == {4}
InitReuse == Init /\ prog \in ReusePrograms /\ env = Unset

NextReuse ==
  \/ CallRun("test-workflow", Num(5), NoInitialState)
  \/ CallRunOn("child", "child-run", Num(5))
  \/ Engine

SpecReuse == InitReuse /\ [][NextReuse]_vars

\* the same instance run twice, one run after the other, with or without an initial
\* input and an initial state
RepeatPrograms == {9}
InitRepeat ==
  /\ prog \in RepeatPrograms
  /\ env = Unset
  /\ concurrencyEnv = Unset
  /\ runner = IdleRunner
  /\ heap = <<DeclaredState>>
  /\ wf = [w \in WorkflowIds |->
             [state |-> 1, lastOutput |-> Null, runId |-> "",
              executionContext |-> DefaultContext]]
  /\ runs = <<>>
  /\ tasks = <<>>
  /\ nextUUID = 1
  /\ called = FALSE
  /\ stepRetries = NotCalled
  /\ retry503 = IdleRetry

NextRepeat ==
  \/ \E initialInput \in {Undefined, Num(5)}, initialState \in InitialStates :
        CallRun("test-workflow", initialInput, initialState)
  \/ \E initialInput \in {Undefined, Num(5)}, initialState \in InitialStates :
        CallRunAgain("test-workflow", initialInput, initialState)
  \/ Engine

SpecRepeat == InitRepeat /\ [][NextRepeat]_vars

\* two executions of run() on one instance that overlap in time
OverlapPrograms == {9}
InitOverlap ==
  /\ prog \in OverlapPrograms
  /\ env = Unset
  /\ concurrencyEnv = Unset
  /\ runner = IdleRunner
  /\ heap = <<DeclaredState>>
  /\ wf = [w \in WorkflowIds |->
             [state |-> 1, lastOutput |-> Null, runId |-> "",
              executionContext |-> DefaultContext]]
  /\ runs = <<>>
  /\ tasks = <<>>
  /\ nextUUID = 1
  /\ called = FALSE
  /\ stepRetries = NotCalled
  /\ retry503 = IdleRetry

\* the runs whose first operation thunk is still to be called: run() calls it in the
\* same synchronous stretch as its resets, before any other code can run
SyncPending ==
  {r \in DOMAIN runs :
     runs[r].phase = "ready" /\ runs[r].pc = 1 /\ Steps(runs[r].wf) /= <<>>}

\* code other than a pending first operation runs only when none is pending
NextOverlap ==
  \/ \E r \in DOMAIN runs : (SyncPending \subseteq {r}) /\ OperationStart(r)
  \/ SyncPending = {} /\ CallRun("test-workflow", Num(5), NoInitialState)
  \/ SyncPending = {} /\ CallRunOverlapping("second-run", Num(12), NoInitialState)
  \/ \E r \in DOMAIN runs : SyncPending = {} /\ RunReturn(r)
  \/ \E t \in DOMAIN tasks : SyncPending = {} /\ ExecutorSetState(t)
  \/ \E t \in DOMAIN tasks : SyncPending = {} /\ ExecutorMutateState(t)
  \/ \E t \in DOMAIN tasks : SyncPending = {} /\ ExecutorReturn(t)
  \/ \E t \in DOMAIN tasks, error \in ThrownValues :
        SyncPending = {} /\ ExecutorThrow(t, error)
  \/ \E t \in DOMAIN tasks : SyncPending = {} /\ OnErrorReturn(t)
  \/ \E t \in DOMAIN tasks, error \in HandlerThrownValues :
        SyncPending = {} /\ OnErrorThrow(t, error)
  \/ \E t \in DOMAIN tasks : SyncPending = {} /\ NestedRunSettled(t)

SpecOverlap == InitOverlap /\ [][NextOverlap]_vars

\* the engine and the runner under the scheduling of the event loop: a process that
\* either runs a workflow once or calls runWithConcurrencyLimit once; every pending
\* continuation of the engine is eventually run, and every executor, handler and task
\* eventually settles
InitLive == Init /\ env = Unset

NextLive ==
  \/ \E initialInput \in {Num(5), Num(12)} :
        runner.mode = "idle" /\ CallRun("test-workflow", initialInput, NoInitialState)
  \/ Engine
  \/ \E n \in 0..MaxTasks, limit \in RunnerLimits : ~called /\ RunnerCall(n, limit)
  \/ \E i \in 0..(MaxTasks - 1) : TaskFulfil(i)
  \/ \E i \in 0..(MaxTasks - 1) : TaskReject(i)
  \/ RunnerReturn

\* the continuations the event loop runs: the next operation thunk, the return of
\* run(), the resumption of runStepExecution after a nested run
Continuation ==
  \/ \E r \in DOMAIN runs : OperationStart(r)
  \/ \E r \in DOMAIN runs : RunReturn(r)
  \/ \E t \in DOMAIN tasks : NestedRunSettled(t)

\* an executor settles
ExecutorSettles ==
  \/ \E t \in DOMAIN tasks : ExecutorReturn(t)
  \/ \E t \in DOMAIN tasks, error \in ThrownValues : ExecutorThrow(t, error)

\* an onError handler settles
HandlerSettles ==
  \/ \E t \in DOMAIN tasks : OnErrorReturn(t)
  \/ \E t \in DOMAIN tasks, error \in HandlerThrownValues : OnErrorThrow(t, error)

\* a task of the runner settles
TaskSettles == \E i \in 0..(MaxTasks - 1) : TaskFulfil(i) \/ TaskReject(i)

SpecLive ==
  /\ InitLive /\ [][NextLive]_vars
  /\ WF_vars(Continuation) /\ WF_vars(ExecutorSettles) /\ WF_vars(HandlerSettles)
  /\ WF_vars(TaskSettles) /\ WF_vars(RunnerReturn)

\* one run of a workflow made of one parallel batch
InitBatch ==
  /\ prog \in BatchPrograms
  /\ env = Unset
  /\ concurrencyEnv = Unset
  /\ runner = IdleRunner
  /\ heap = <<DeclaredState>>
  /\ wf = [w \in WorkflowIds |->
             [state |-> 1, lastOutput |-> Null, runId |-> "",
              executionContext |-> DefaultContext]]
  /\ runs = <<>>
  /\ tasks = <<>>
  /\ nextUUID = 1
  /\ called = FALSE
  /\ stepRetries = NotCalled
  /\ retry503 = IdleRetry

NextBatch ==
  \/ CallRun("test-workflow", Num(5), NoInitialState)
  \/ Engine

SpecBatch == InitBatch /\ [][NextBatch]_vars

\* a caller invokes with503Retry(fn, is503WithRetryAfter)
RetryCall ==
  /\ retry503.phase = "idle"
  /\ retry503' = callFn(retry503)
  /\ UNCHANGED <<prog, env, concurrencyEnv, wf, heap, runs, tasks, nextUUID, called, runner,
                 stepRetries>>

\* the promise of fn fulfils: with503Retry returns its value
FnFulfils ==
  /\ retry503.phase = "calling"
  /\ retry503' = [retry503 EXCEPT !.phase = "returned", !.result = FnResult(retry503.calls)]
  /\ UNCHANGED <<prog, env, concurrencyEnv, wf, heap, runs, tasks, nextUUID, called, runner,
                 stepRetries>>

\* the promise of fn rejects: the catch block runs
FnRejects(retryAfter) ==
  /\ retry503.phase = "calling"
  /\ retry503' = catch503(retry503, FnError(retry503.calls, retryAfter))
  /\ UNCHANGED <<prog, env, concurrencyEnv, wf, heap, runs, tasks, nextUUID, called, runner,
                 stepRetries>>

\* the timer of the wait fires: the loop calls fn again
TimerFires ==
  /\ retry503.phase = "waiting"
  /\ retry503' = callFn(retry503)
  /\ UNCHANGED <<prog, env, concurrencyEnv, wf, heap, runs, tasks, nextUUID, called, runner,
                 stepRetries>>

\* with503Retry on its own
InitRetry503 == Init /\ prog = 1 /\ env = Unset

NextRetry503 ==
  \/ RetryCall
  \/ FnFulfils
  \/ \E retryAfter \in RetryAfterValues : FnRejects(retryAfter)
  \/ TimerFires

SpecRetry503 == InitRetry503 /\ [][NextRetry503]_vars

\* a caller reads the number of retries
GetStepRetries ==
  /\ stepRetries' = Returned(getStepRetries(env))
  /\ UNCHANGED <<prog, env, concurrencyEnv, wf, heap, runs, tasks, nextUUID, called, runner,
                 retry503>>

\* getStepRetries on its own, under every value of MULE_STEP_RETRIES tried
InitRetries ==
  /\ prog = 1
  /\ env \in RawValues
  /\ concurrencyEnv = Unset
  /\ runner = IdleRunner
  /\ heap = <<DeclaredState>>
  /\ wf = [w \in WorkflowIds |->
             [state |-> 1, lastOutput |-> Null, runId |-> "",
              executionContext |-> DefaultContext]]
  /\ runs = <<>>
  /\ tasks = <<>>
  /\ nextUUID = 1
  /\ called = FALSE
  /\ stepRetries = NotCalled
  /\ retry503 = IdleRetry

NextRetries == GetStepRetries

SpecRetries == InitRetries /\ [][NextRetries]_vars

\* runWithConcurrencyLimit on its own, called with up to MaxTasks tasks
InitRunner == Init /\ prog = 1 /\ env = Unset

NextRunner ==
  \/ \E n \in 0..MaxTasks, limit \in RunnerLimits : RunnerCall(n, limit)
  \/ \E i \in 0..(MaxTasks - 1) : TaskFulfil(i)
  \/ \E i \in 0..(MaxTasks - 1) : TaskReject(i)
  \/ RunnerReturn

SpecRunner == InitRunner /\ [][NextRunner]_vars

----------------------------------------------------------------------------
(* Properties *)

\* the input run r starts from: the caller's initial input, or null
FirstInput(r) ==
  IF runs[r].initialInput.kind /= "undefined" THEN runs[r].initialInput ELSE Null

TaskIdsOf(r, op) == {t \in DOMAIN tasks : tasks[t].run = r /\ tasks[t].op = op}
TheTaskOf(r, op) == CHOOSE t \in TaskIdsOf(r, op) : TRUE
Threw(t) == tasks[t].thrown /= <<>>
OnlyAddStep(w) == \A i \in DOMAIN Steps(w) : Steps(w)[i].type = "sequential"

\* operation op of run r has completed and run r went on
Completed(r, op) == runs[r].pc > op
\* the lastOutput operation op of run r left, for a completed operation: what the next
\* operation found, or what run returned or is about to return
OutputOf(r, op) ==
  IF Len(runs[r].opInputs) > op THEN runs[r].opInputs[op + 1]
  ELSE IF runs[r].phase = "resolved" THEN runs[r].result
  ELSE wf[runs[r].wf].lastOutput

\* what a fulfilled activation returns when nothing failed in it
OwnResult(t) ==
  IF tasks[t].step.kind = "workflow" THEN runs[tasks[t].child].result
  ELSE StepOutput(tasks[t].step.id, tasks[t].input)

RECURSIVE EffectSettled(_)
EffectSettled(t) ==
  /\ tasks[t].status = "fulfilled"
  /\ tasks[t].step.kind = "workflow" =>
       /\ runs[tasks[t].child].phase = "resolved"
       /\ \A u \in DOMAIN tasks : tasks[u].run = tasks[t].child => EffectSettled(u)

\* C2: within a run operations start in append order, and when an operation has
\* started every member of every earlier operation has settled with all its effects.
C2_SequentialBarrier ==
  \A t1, t2 \in DOMAIN tasks :
    tasks[t1].run = tasks[t2].run =>
      /\ t1 < t2 => tasks[t1].op <= tasks[t2].op
      /\ tasks[t1].op < tasks[t2].op => EffectSettled(t1)
      /\ tasks[t1].op <= runs[tasks[t1].run].pc

C2_Witness ==
  \E t1, t2, t3 \in DOMAIN tasks :
    /\ tasks[t1].run = 1 /\ tasks[t2].run = 1 /\ tasks[t3].run = 1
    /\ Steps("main")[tasks[t1].op].type = "parallel"
    /\ tasks[t1].step.kind = "workflow"
    /\ tasks[t2].op = tasks[t1].op /\ t2 < t1
    /\ runs[tasks[t1].child].phase = "resolved"
    /\ tasks[t3].op = tasks[t1].op + 1

\* the key the claims give a batch member
MemberKey(s) == IF s.kind = "workflow" THEN s.workflowId ELSE s.id

\* C3: every member of a parallel batch is started with the lastOutput the batch found,
\* and when all members are fulfilled lastOutput is an object with one key per member
\* (step id, or workflowId of a nested workflow) holding that member's own result.
C3_ParallelFanOut ==
  \A r \in DOMAIN runs : \A op \in DOMAIN Steps(runs[r].wf) :
    LET operation == Steps(runs[r].wf)[op]
        ts == TaskIdsOf(r, op)
        out == OutputOf(r, op)
    IN  (operation.type = "parallel" /\ Len(runs[r].opInputs) >= op) =>
          /\ Cardinality(ts) = Len(operation.members)
          /\ {tasks[t].step : t \in ts} = {operation.members[i] : i \in DOMAIN operation.members}
          /\ \A t \in ts : tasks[t].input = runs[r].opInputs[op]
          /\ Completed(r, op) =>
               /\ out.kind = "object"
               /\ DOMAIN out.entries =
                    {MemberKey(operation.members[i]) : i \in DOMAIN operation.members}
               /\ \A t \in ts :
                    /\ out.entries[MemberKey(tasks[t].step)] = tasks[t].result
                    /\ ~Threw(t) => tasks[t].result = OwnResult(t)

C3_Witness ==
  \E t, u \in DOMAIN tasks :
    /\ tasks[t].run = 1 /\ tasks[u].run = 1
    /\ Steps("main")[tasks[t].op].type = "parallel"
    /\ tasks[u].op = tasks[t].op
    /\ tasks[t].step.kind = "workflow" /\ tasks[u].step.kind = "step"
    /\ Completed(1, tasks[t].op)
    /\ ~Threw(u)
    /\ tasks[t].result.kind = "output"

\* the members of a branch operation whose predicate holds for v
Matching(operation, v) ==
  {i \in DOMAIN operation.members : Condition(operation.conds[i], v)}

\* C4: a branch batch none of whose predicates holds for lastOutput invokes no executor,
\* leaves the empty object as lastOutput, does not fail the run, and the next
\* operation is given the empty object.
C4_BranchNoMatch ==
  \A r \in DOMAIN runs : \A op \in DOMAIN Steps(runs[r].wf) :
    LET operation == Steps(runs[r].wf)[op]
    IN  ( /\ operation.type = "branch"
          /\ Len(runs[r].opInputs) >= op
          /\ Matching(operation, runs[r].opInputs[op]) = {} ) =>
          /\ TaskIdsOf(r, op) = {}
          /\ Completed(r, op)
          /\ OutputOf(r, op) = ObjectFromEntries(<<>>)
          /\ \A t \in TaskIdsOf(r, op + 1) : tasks[t].input = ObjectFromEntries(<<>>)

C4_Witness ==
  /\ runs /= <<>>
  /\ Steps("main")[1].type = "branch"
  /\ runs[1].initialInput = Num(5)
  /\ TaskIdsOf(1, 1) = {}
  /\ \E t \in TaskIdsOf(1, 2) : tasks[t].status = "fulfilled"

\* C5: a branch batch starts exactly the members whose predicate holds for the lastOutput
\* it found, each once and with that lastOutput as input, and the object it leaves has
\* exactly the ids of those members as keys, each holding its member's result.
C5_BranchSelection ==
  \A r \in DOMAIN runs : \A op \in DOMAIN Steps(runs[r].wf) :
    LET operation == Steps(runs[r].wf)[op]
        ts == TaskIdsOf(r, op)
        out == OutputOf(r, op)
    IN  (operation.type = "branch" /\ Len(runs[r].opInputs) >= op) =>
          LET sel == Matching(operation, runs[r].opInputs[op])
          IN  /\ {tasks[t].step : t \in ts} = {operation.members[i] : i \in sel}
              /\ Cardinality(ts) = Cardinality(sel)
              /\ \A t \in ts : tasks[t].input = runs[r].opInputs[op] /\ tasks[t].execCalls = 1
              /\ Completed(r, op) =>
                   /\ out.kind = "object"
                   /\ DOMAIN out.entries = {operation.members[i].id : i \in sel}
                   /\ \A t \in ts : out.entries[tasks[t].step.id] = tasks[t].result

C5_Witness ==
  /\ runs /= <<>>
  /\ Steps("main")[1].type = "branch"
  /\ Cardinality(TaskIdsOf(1, 1)) = 2
  /\ Completed(1, 1)
  /\ \E m \in DOMAIN Steps("main")[1].members :
       ~Condition(Steps("main")[1].conds[m], runs[1].opInputs[1])

IsPlainStep(t) == tasks[t].step.kind = "step"

\* the run id of run r as the caller fixed it: the runId argument (the generated one
\* when none was given), and parentRunId->workflowId for the run of a nested workflow
RECURSIVE RunIdOf(_)
RunIdOf(r) ==
  IF runs[r].parent = 0
  THEN (IF runs[r].runIdArg /= "" THEN runs[r].runIdArg ELSE wf[runs[r].wf].runId)
  ELSE RunIdOf(tasks[runs[r].parent].run) \o "->" \o runs[r].wf

\* C6: a plain step without onError that fails rejects the run() of the workflow that
\* contains it with an Error whose message is "Step '<runId>:<stepId>' failed: <message
\* of the original error>", runId being the run id of that workflow.
C6_UnhandledStepFailure ==
  \A t \in DOMAIN tasks :
    (IsPlainStep(t) /\ ~HasOnError(tasks[t].step.id) /\ Threw(t)) =>
      LET r == tasks[t].run
          id == tasks[t].step.id
      IN  /\ tasks[t].status = "rejected"
          /\ tasks[t].error.isError
          /\ tasks[t].error.message =
               "Step '" \o RunIdOf(r) \o ":" \o id \o "' failed: " \o tasks[t].thrown[1].message
          /\ runs[r].phase = "rejected" /\ runs[r].pc = tasks[t].op
          /\ \E u \in TaskIdsOf(r, tasks[t].op) :
               tasks[u].status = "rejected" /\ runs[r].error = tasks[u].error
          /\ Steps(runs[r].wf)[tasks[t].op].type = "sequential" =>
               runs[r].error = tasks[t].error
          /\ (runs[r].runIdArg = "test-workflow" /\ id = "A"
                /\ tasks[t].thrown[1].message = "Something went wrong") =>
               tasks[t].error.message =
                 "Step 'test-workflow:A' failed: Something went wrong"

C6_Witness ==
  /\ runs /= <<>>
  /\ runs[1].phase = "rejected"
  /\ runs[1].error.message = "Step 'test-workflow->child:C1' failed: Something went wrong"

\* C7 as claimed: onError is called exactly once for a failed step that has it, never
\* otherwise, and is given the very value the executor threw, the step's input and the
\* state the workflow holds when the executor fails.
C7_OnErrorGetsOriginalError ==
  \A t \in DOMAIN tasks : IsPlainStep(t) =>
    /\ Len(tasks[t].onErrorCalls) =
         IF HasOnError(tasks[t].step.id) /\ Threw(t) THEN 1 ELSE 0
    /\ \A i \in DOMAIN tasks[t].onErrorCalls :
         /\ tasks[t].onErrorCalls[i].error = tasks[t].thrown[1]
         /\ tasks[t].onErrorCalls[i].data.input = tasks[t].input
         /\ tasks[t].onErrorCalls[i].data.state = tasks[t].stateAtFailure

\* C7 as amended: the error given to onError is the thrown value when that is an Error
\* instance, and otherwise a new Error whose message is the thrown value as a string;
\* the rest as claimed.
C7_OnErrorInvocation ==
  \A t \in DOMAIN tasks : IsPlainStep(t) =>
    /\ Len(tasks[t].onErrorCalls) =
         IF HasOnError(tasks[t].step.id) /\ Threw(t) THEN 1 ELSE 0
    /\ \A i \in DOMAIN tasks[t].onErrorCalls :
         /\ tasks[t].onErrorCalls[i].error.isError
         /\ tasks[t].onErrorCalls[i].error.message = tasks[t].thrown[1].message
         /\ tasks[t].thrown[1].isError =>
              tasks[t].onErrorCalls[i].error = tasks[t].thrown[1]
         /\ tasks[t].onErrorCalls[i].data.input = tasks[t].input
         /\ tasks[t].onErrorCalls[i].data.state = tasks[t].stateAtFailure

C7_Witness ==
  \E t \in DOMAIN tasks :
    /\ IsPlainStep(t)
    /\ Len(tasks[t].onErrorCalls) = 1
    /\ ~tasks[t].thrown[1].isError
    /\ tasks[t].stateAtFailure /= tasks[t].stateArg
    /\ tasks[t].status = "fulfilled"

\* C8: a step whose failure its onError handled contributes undefined; in a sequence
\* the run does not reject at that step, lastOutput is undefined and the next
\* operation is given undefined.
C8_HandledFailureContinues ==
  \A t \in DOMAIN tasks :
    (IsPlainStep(t) /\ tasks[t].onErrorCalls /= <<>> /\ tasks[t].status = "fulfilled") =>
      LET r == tasks[t].run
          op == tasks[t].op
      IN  /\ tasks[t].result = Undefined
          /\ Steps(runs[r].wf)[op].type = "sequential" =>
               /\ Completed(r, op)
               /\ OutputOf(r, op) = Undefined
               /\ \A u \in TaskIdsOf(r, op + 1) : tasks[u].input = Undefined

C8_Witness ==
  \E t, u \in DOMAIN tasks :
    /\ tasks[t].run = 1 /\ tasks[u].run = 1
    /\ tasks[t].step.id = "H" /\ tasks[t].onErrorCalls /= <<>>
    /\ tasks[u].op = tasks[t].op + 1
    /\ tasks[u].status = "fulfilled"
    /\ runs[1].phase = "resolved"

\* the step execution has failed for good: onError was called or the failure was raised
GaveUp(t) == tasks[t].onErrorCalls /= <<>> \/ tasks[t].status = "rejected"

\* C9: a step whose executor raises on every attempt has had its executor invoked
\* 1 + MULE_STEP_RETRIES times when onError is called or the step failure is raised.
C9_RetryCountOnPersistentFailure ==
  \A t \in DOMAIN tasks :
    (IsPlainStep(t) /\ SucceedsAt(tasks[t].step.id) = 0 /\ GaveUp(t)) =>
      tasks[t].execCalls = 1 + getStepRetries(env)

\* C10: a step whose executor fails on its first k-1 attempts and succeeds on attempt k,
\* k at most 1 + MULE_STEP_RETRIES, yields the result of attempt k after exactly k
\* invocations, without onError being called and without an error being raised.
C10_RetryStopsAtFirstSuccess ==
  \A t \in DOMAIN tasks :
    LET k == SucceedsAt(tasks[t].step.id)
    IN  ( /\ IsPlainStep(t)
          /\ Threw(t)
          /\ k >= 2 /\ k <= 1 + getStepRetries(env)
          /\ tasks[t].status /= "running" ) =>
          /\ tasks[t].status = "fulfilled"
          /\ tasks[t].onErrorCalls = <<>>
          /\ tasks[t].result = StepOutput(tasks[t].step.id, tasks[t].input)
          /\ tasks[t].execCalls = k

\* the members of batch op of run r that have started and not yet settled
InFlight(r, op) ==
  {t \in TaskIdsOf(r, op) : tasks[t].status \in {"running", "handling"}}

\* C11: when MULE_STEP_CONCURRENCY is a positive integer N, no parallel or branch batch
\* ever has more than N member executions in flight.
C11_BatchConcurrencyCap ==
  LET limit == getMaxParallelSteps(concurrencyEnv)
  IN  limit.defined =>
        \A r \in DOMAIN runs : \A op \in DOMAIN Steps(runs[r].wf) :
          Steps(runs[r].wf)[op].type \in {"parallel", "branch"} =>
            Cardinality(InFlight(r, op)) <= limit.n

\* the tasks of the runner that have been started and have not settled
RunnerInFlight == {i \in DOMAIN runner.status : runner.status[i] = "running"}

\* C12: runWithConcurrencyLimit with a limit of at least 1 never has more than limit
\* tasks in flight; with the limit undefined or below 1 every task is started by the
\* call itself.
C12_RunnerLimit ==
  runner.mode /= "idle" =>
    IF runner.limit.defined /\ runner.limit.n >= 1
    THEN Cardinality(RunnerInFlight) <= runner.limit.n
    ELSE \A i \in DOMAIN runner.status :
           runner.starts[i] = 1 /\ runner.status[i] /= "pending"

C12_Witness ==
  /\ runner.mode = "pool"
  /\ runner.n = 3 /\ runner.limit = Limit(2)
  /\ runner.status = <<"running", "done", "running">>

\* C13: when every task succeeds runWithConcurrencyLimit resolves with an array as
\* long as tasks whose position i holds the result of tasks[i], and every task was
\* started exactly once; no task is ever started twice.
C13_RunnerResults ==
  /\ \A i \in DOMAIN runner.starts : runner.starts[i] <= 1
  /\ (runner.mode /= "idle" /\ \A i \in DOMAIN runner.status : runner.status[i] = "done") =>
       \/ runner.outcome = "resolved"
       \/ runner.outcome = "pending" /\ RunnerSettled(runner)
  /\ runner.outcome = "resolved" =>
       /\ Len(runner.returned) = runner.n
       /\ \A i \in 0..(runner.n - 1) :
            runner.returned[i + 1] = TaskResult(i) /\ runner.starts[i + 1] = 1

C13_Witness ==
  /\ runner.mode = "pool"
  /\ runner.n = 3 /\ runner.limit = Limit(2)
  /\ runner.order = <<1, 2, 0>>
  /\ runner.outcome = "resolved"
  /\ runner.returned = <<TaskResult(0), TaskResult(1), TaskResult(2)>>

\* whether run r is run top or a run of a workflow nested, at any depth, in run top
RECURSIVE Under(_, _)
Under(r, top) ==
  r = top \/ (runs[r].parent /= 0 /\ Under(tasks[runs[r].parent].run, top))

\* the keys activation t has written, with their values: through setState and by
\* assigning on its state argument
WrittenBy(t) ==
  Spread(IF tasks[t].setCalls > 0 THEN StepPartial(tasks[t].step.id) ELSE NoPartial,
         IF tasks[t].writes > 0 THEN StepMutation(tasks[t].step.id) ELSE NoPartial)

\* state object obj shows key k with value v
Shows(obj, k, v) == k \in DOMAIN heap[obj] /\ heap[obj][k] = v

\* the state objects run r lets its code see: the state arguments of the executors
\* started in it or in the nested workflows under it, and getState() of its workflow
StatesSeenIn(r) ==
  {tasks[t].stateArg : t \in {u \in DOMAIN tasks : IsPlainStep(u) /\ Under(tasks[u].run, r)}}
    \cup {wf[runs[r].wf].state}

\* C14: in a second run() of the same instance called without initialState, the state
\* objects the run shows hold no key but those its own steps wrote (and those of the
\* declared state): nothing the first run wrote or was given is visible.
C14_StateResetBetweenRuns ==
  \A r \in TopLevelRuns :
    (r > 1 /\ ~runs[r].initialState.given) =>
      LET own == UNION {DOMAIN WrittenBy(t) :
                          t \in {u \in DOMAIN tasks : Under(tasks[u].run, r)}}
      IN  \A obj \in StatesSeenIn(r) : DOMAIN heap[obj] \subseteq own \cup DOMAIN DeclaredState

C14_Witness ==
  \E r \in TopLevelRuns :
    /\ r > 1 /\ ~runs[r].initialState.given
    /\ runs[1].initialState.given
    /\ \E t \in DOMAIN tasks : Under(tasks[t].run, 1) /\ tasks[t].setCalls > 0
    /\ \E t \in DOMAIN tasks : Under(tasks[t].run, 1) /\ tasks[t].writes > 0
    /\ runs[r].phase = "resolved"
    /\ \E t \in DOMAIN tasks :
         tasks[t].run = r /\ tasks[t].step.id = "H" /\ tasks[t].status = "fulfilled"

\* C15: every step of a run started by the caller sees the keys of the state the
\* workflow was created with, and getState() still has them when run() has resolved.
C15_DeclaredDefaultState ==
  \A r \in TopLevelRuns : \A obj \in StatesSeenIn(r) : \A k \in DOMAIN DeclaredState :
    (obj /= wf[runs[r].wf].state \/ runs[r].phase = "resolved") =>
      Shows(obj, k, DeclaredState[k])

\* C16: a key written by a step (through setState or on its state argument) and by no
\* other step is read with that value by every step of a later operation of the same
\* run, and getState() has it when run() has resolved.
C16_StatePropagation ==
  \A t \in DOMAIN tasks : IsPlainStep(t) =>
    LET r == tasks[t].run
    IN  \A k \in DOMAIN WrittenBy(t) :
          (\A u \in DOMAIN tasks : (u /= t /\ Under(tasks[u].run, r)) => k \notin DOMAIN WrittenBy(u)) =>
            /\ \A u \in DOMAIN tasks :
                 (IsPlainStep(u) /\ tasks[u].run = r /\ tasks[u].op > tasks[t].op) =>
                   Shows(tasks[u].stateArg, k, WrittenBy(t)[k])
            /\ runs[r].phase = "resolved" => Shows(wf[runs[r].wf].state, k, WrittenBy(t)[k])

\* the activations of runStepExecution that ran a nested workflow
IsNested(t) == tasks[t].step.kind = "workflow"

\* C17: inside a nested workflow every executor sees the keys the steps of the parent's
\* earlier operations wrote, with the values written.
C17_NestedSeesParentState ==
  \A nt \in DOMAIN tasks : IsNested(nt) =>
    \A t, u \in DOMAIN tasks :
      ( /\ IsPlainStep(t) /\ tasks[t].run = tasks[nt].run /\ tasks[t].op < tasks[nt].op
        /\ IsPlainStep(u) /\ tasks[u].run = tasks[nt].child ) =>
        \A k \in DOMAIN WrittenBy(t) : Shows(tasks[u].stateArg, k, WrittenBy(t)[k])

\* the keys activation t has written on the workflow's state: through setState, and by
\* assigning on its state argument while that was the workflow's state object
WrittenLiveBy(t) ==
  Spread(IF tasks[t].setCalls > 0 THEN StepPartial(tasks[t].step.id) ELSE NoPartial,
         IF tasks[t].writes > 0 /\ ~tasks[t].staleWrite
         THEN StepMutation(tasks[t].step.id) ELSE NoPartial)

C19_ParentStateSurvivesNested ==
  \A nt \in DOMAIN tasks : (IsNested(nt) /\ tasks[nt].status = "fulfilled") =>
    \A t \in DOMAIN tasks :
      (IsPlainStep(t) /\ tasks[t].run = tasks[nt].run /\ tasks[t].op < tasks[nt].op) =>
        \A k \in DOMAIN WrittenBy(t) :
          (\A u \in DOMAIN tasks :
             Under(tasks[u].run, tasks[nt].child) => k \notin DOMAIN WrittenBy(u)) =>
            /\ Shows(wf[tasks[nt].wf].state, k, WrittenBy(t)[k])
            /\ \A v \in DOMAIN tasks :
                 (IsPlainStep(v) /\ tasks[v].run = tasks[nt].run /\ tasks[v].op > tasks[nt].op) =>
                   Shows(tasks[v].stateArg, k, WrittenBy(t)[k])

\* how many workflows run r is nested in
RECURSIVE Depth(_)
Depth(r) == IF runs[r].parent = 0 THEN 0 ELSE 1 + Depth(tasks[runs[r].parent].run)

\* the run the caller started that run r belongs to
RECURSIVE OuterRun(_)
OuterRun(r) == IF runs[r].parent = 0 THEN r ELSE OuterRun(tasks[runs[r].parent].run)

\* the run id the caller's run() was given or generated for itself
OuterRunId(r) ==
  LET o == OuterRun(r)
  IN  IF runs[o].runIdArg /= "" THEN runs[o].runIdArg ELSE wf[runs[o].wf].runId

\* the '->workflowId' segments from the caller's workflow down to the workflow of run r
RECURSIVE Segments(_)
Segments(r) ==
  IF runs[r].parent = 0 THEN ""
  ELSE Segments(tasks[runs[r].parent].run) \o "->" \o runs[r].wf

\* error e, raised in run r, has been passed up unchanged as far as the awaiting code
\* has resumed: a nested workflow's step that has settled is rejected with e, and the
\* run that contains it is rejected, with e when the nested workflow is awaited alone
RECURSIVE PassedUp(_, _)
PassedUp(r, e) ==
  runs[r].parent /= 0 =>
    LET nt == runs[r].parent
        pr == tasks[nt].run
    IN  tasks[nt].status /= "running" =>
          /\ tasks[nt].status = "rejected"
          /\ tasks[nt].error = e
          /\ runs[pr].phase = "rejected"
          /\ Steps(runs[pr].wf)[tasks[nt].op].type = "sequential" =>
               runs[pr].error = e /\ PassedUp(pr, e)

\* C20: a step without onError that fails inside a nested workflow is reported as
\* "Step '<outerRunId>-><workflowId>...:<stepId>' failed: <message>", with one
\* '-><workflowId>' segment per level of nesting, and that error rejects the nested
\* runs and the outer run() unchanged.
C20_NestedErrorPath ==
  \A t \in DOMAIN tasks :
    LET r == tasks[t].run
        id == tasks[t].step.id
    IN  (IsPlainStep(t) /\ ~HasOnError(id) /\ Threw(t) /\ Depth(r) >= 1) =>
          /\ tasks[t].error.message =
               "Step '" \o OuterRunId(r) \o Segments(r) \o ":" \o id \o "' failed: "
                 \o tasks[t].thrown[1].message
          /\ runs[r].phase = "rejected"
          /\ PassedUp(r, tasks[t].error)
          /\ (Depth(r) = 1 /\ runs[OuterRun(r)].runIdArg = "test-workflow" /\ id = "C1"
                /\ tasks[t].thrown[1].message = "timeout") =>
               tasks[t].error.message = "Step 'test-workflow->child:C1' failed: timeout"
          /\ (Depth(r) = 2 /\ runs[OuterRun(r)].runIdArg = "test-workflow" /\ id = "C1"
                /\ tasks[t].thrown[1].message = "timeout") =>
               tasks[t].error.message =
                 "Step 'test-workflow->child->inner:C1' failed: timeout"

C20_Witness ==
  \E t \in DOMAIN tasks :
    /\ IsPlainStep(t) /\ Threw(t) /\ Depth(tasks[t].run) = 2
    /\ runs[1].phase = "rejected"
    /\ runs[1].error = tasks[t].error
    /\ runs[1].error.message = "Step 'test-workflow->child->inner:C1' failed: timeout"

\* the run of the nested workflow that activation nt awaits has failed and nt has resumed
NestedFailed(nt) ==
  IsNested(nt) /\ runs[tasks[nt].child].phase = "rejected" /\ tasks[nt].status /= "running"

\* what C21 says whatever the error is: no onError handler is ever called for a nested
\* workflow operand, and a failed nested run rejects the parent's step and the parent's
\* run (with that step's error when the nested workflow is awaited alone)
NestedFailureRaised(nt) ==
  /\ tasks[nt].onErrorCalls = <<>>
  /\ tasks[nt].status /= "handling"
  /\ NestedFailed(nt) =>
       /\ tasks[nt].status = "rejected"
       /\ runs[tasks[nt].run].phase = "rejected"
       /\ Steps(tasks[nt].wf)[tasks[nt].op].type = "sequential" =>
            runs[tasks[nt].run].error = tasks[nt].error

\* C21 as claimed: when the run of a nested workflow fails the parent re-raises that
\* very error, and calls no onError handler for the nested workflow.
C21_NestedFailureReraisedUnchanged ==
  \A nt \in DOMAIN tasks : IsNested(nt) =>
    /\ NestedFailureRaised(nt)
    /\ NestedFailed(nt) => tasks[nt].error = runs[tasks[nt].child].error

\* C21 as amended: the error re-raised is the one the nested run failed with when that
\* is an Error instance, and otherwise a new Error whose message is that value as a
\* string; the rest as claimed.
C21_NestedFailureNeverAbsorbed ==
  \A nt \in DOMAIN tasks : IsNested(nt) =>
    /\ NestedFailureRaised(nt)
    /\ NestedFailed(nt) =>
         /\ tasks[nt].error.isError
         /\ tasks[nt].error.message = runs[tasks[nt].child].error.message
         /\ runs[tasks[nt].child].error.isError =>
              tasks[nt].error = runs[tasks[nt].child].error

C21_Witness ==
  \E nt \in DOMAIN tasks :
    /\ NestedFailed(nt) /\ tasks[nt].run = 1
    /\ ~runs[tasks[nt].child].error.isError
    /\ runs[1].phase = "rejected"
    /\ runs[1].error = Thrown(TRUE, "handler timeout")

\* operation op of run r is a parallel or a branch batch
IsBatch(r, op) == Steps(runs[r].wf)[op].type \in {"parallel", "branch"}

\* the members of batch op of run r whose runStepExecution has thrown
RejectedIn(r, op) == {u \in TaskIdsOf(r, op) : tasks[u].status = "rejected"}

\* C22: when a member of a parallel or branch batch fails without onError, run() is
\* rejected at that batch with the error of a failed member (this member's step failure
\* when no other member has failed), lastOutput keeps the value the batch found, and no
\* later operation is started.
C22_UnhandledFailureAbortsBatch ==
  \A t \in DOMAIN tasks :
    LET r == tasks[t].run
        op == tasks[t].op
        id == tasks[t].step.id
    IN  (IsPlainStep(t) /\ IsBatch(r, op) /\ ~HasOnError(id) /\ Threw(t)) =>
          /\ tasks[t].status = "rejected"
          /\ runs[r].phase = "rejected" /\ runs[r].pc = op
          /\ \E u \in RejectedIn(r, op) : runs[r].error = tasks[u].error
          /\ RejectedIn(r, op) = {t} =>
               /\ runs[r].error = tasks[t].error
               /\ runs[r].error.message =
                    StepFailureMessage(wf[runs[r].wf].runId, id, tasks[t].thrown[1].message)
          /\ wf[runs[r].wf].lastOutput = runs[r].opInputs[op]
          /\ Len(runs[r].opInputs) = op
          /\ \A u \in DOMAIN tasks : tasks[u].run = r => tasks[u].op <= op

C22_Witness ==
  \E t, u \in DOMAIN tasks :
    /\ tasks[t].run = 1 /\ tasks[u].run = 1 /\ tasks[u].op = tasks[t].op
    /\ IsBatch(1, tasks[t].op)
    /\ tasks[t].step.id = "P1" /\ Threw(t)
    /\ RejectedIn(1, tasks[t].op) = {t}
    /\ tasks[u].status = "fulfilled" /\ tasks[u].step.id = "P2" /\ ~Threw(u)
    /\ runs[1].error.message = "Step 'test-workflow:P1' failed: Something went wrong"

\* the failure of activation t was handled by its onError handler
Handled(t) == tasks[t].onErrorCalls /= <<>> /\ tasks[t].status = "fulfilled"

\* C23: a member of a parallel or branch batch whose failure its onError handled does
\* not fail the batch: once every member has settled that way or succeeded the batch
\* completes, the member's key is in the result map with the value undefined, and every
\* member that did not fail has its own result under its key.
C23_HandledFailureInBatch ==
  \A r \in DOMAIN runs : \A op \in DOMAIN Steps(runs[r].wf) :
    LET ts == TaskIdsOf(r, op)
        out == OutputOf(r, op)
    IN  (IsBatch(r, op) /\ ts /= {}) =>
          /\ (runs[r].phase = "rejected" /\ runs[r].pc = op) => RejectedIn(r, op) /= {}
          /\ (\A t \in ts : tasks[t].status = "fulfilled") => Completed(r, op)
          /\ Completed(r, op) =>
               \A t \in ts :
                 /\ MemberKey(tasks[t].step) \in DOMAIN out.entries
                 /\ Handled(t) => out.entries[MemberKey(tasks[t].step)] = Undefined
                 /\ ~Threw(t) => out.entries[MemberKey(tasks[t].step)] = OwnResult(t)

C23_Witness ==
  \E t, u \in DOMAIN tasks :
    /\ tasks[t].run = 1 /\ tasks[u].run = 1 /\ tasks[u].op = tasks[t].op
    /\ Steps("main")[tasks[t].op].type = "branch"
    /\ tasks[t].step.id = "PH" /\ Handled(t)
    /\ tasks[u].step.id = "P1" /\ ~Threw(u)
    /\ Completed(1, tasks[t].op)
    /\ runs[1].phase = "resolved"

\* C24: when a run() the caller started has rejected, the state getState() returns
\* shows every key the steps that executed wrote on the workflow's state, those of the
\* nested workflows included (workflows built with addStep only, where every step that
\* executed did so before the failure).
C24_StateAfterFailedRun ==
  \A r \in TopLevelRuns :
    (runs[r].phase = "rejected" /\ \A w \in WorkflowIds : OnlyAddStep(w)) =>
      \A t \in DOMAIN tasks : (IsPlainStep(t) /\ Under(tasks[t].run, r)) =>
        \A k \in DOMAIN WrittenLiveBy(t) :
          Shows(wf[runs[r].wf].state, k, WrittenLiveBy(t)[k])


----------------------------------------------------------------------------
\* C25: a run() called without an initial input, on an instance whose lastOutput the
\* caller had assigned, gives that assigned value to its first operation.
C25_PreassignedFirstInput ==
  \A r \in TopLevelRuns :
    (/\ runs[r].initialInput = Undefined
     /\ runs[r].lastOutputAtCall \in PresetOutputs
     /\ runs[r].opInputs /= <<>>) =>
      runs[r].opInputs[1] = runs[r].lastOutputAtCall


----------------------------------------------------------------------------
\* C26: the executor of a plain step is invoked only with an input the step's input
\* validator accepts, and a plain step returns its executor's result only when the
\* step's output validator accepts it; a rejection has the outcome of an executor
\* failure (the handler is called, or the step failure is raised).
C26_StepValidation ==
  \A t \in DOMAIN tasks : IsPlainStep(t) =>
    /\ ~InputSchemaAccepts(tasks[t].step.id, tasks[t].input) =>
         /\ tasks[t].execCalls = 0
         /\ tasks[t].status \in {"handling", "rejected"} \/ Handled(t)
    /\ (tasks[t].status = "fulfilled" /\ ~Handled(t)) =>
         OutputSchemaAccepts(tasks[t].step.id, tasks[t].result)

----------------------------------------------------------------------------
\* C27: no executor of a run the caller started receives the caller's initial input
\* when the workflow's input schema rejects that input.
C27_WorkflowInputValidation ==
  \A r \in TopLevelRuns :
    (/\ runs[r].initialInput /= Undefined
     /\ ~WorkflowInputSchemaAccepts(runs[r].wf, runs[r].initialInput)) =>
      /\ runs[r].opInputs = <<>>
      /\ \A t \in DOMAIN tasks :
           (IsPlainStep(t) /\ Under(tasks[t].run, r)) => tasks[t].input /= runs[r].initialInput


----------------------------------------------------------------------------
\* raw is a decimal numeral: one digit or more and nothing else
IsNumeral(raw) == raw /= Unset /\ raw /= <<>> /\ \A i \in DOMAIN raw : IsDigit(raw[i])

\* the integer a decimal numeral denotes
RECURSIVE NumeralValue(_)
NumeralValue(raw) ==
  IF raw = <<>> THEN 0
  ELSE NumeralValue(SubSeq(raw, 1, Len(raw) - 1)) * 10 + DigitValue(raw[Len(raw)])

\* C28: getStepRetries returns the integer MULE_STEP_RETRIES denotes when the variable
\* is a non-negative integer, and the default 1 for every other value of the variable
\* (unset, empty, not an integer, negative).
C28_GetStepRetries ==
  stepRetries.called =>
    stepRetries.n = IF IsNumeral(env) THEN NumeralValue(env) ELSE DEFAULT_STEP_RETRIES


----------------------------------------------------------------------------
\* activation t calls setState in the step from the current state to the next
CallsSetState(t) == tasks'[t].setCalls > tasks[t].setCalls

\* the activations that hold a state argument while t runs: t itself and the members
\* of its batch that are still running
HoldersWith(t) ==
  {u \in DOMAIN tasks :
     /\ IsPlainStep(u)
     /\ tasks[u].run = tasks[t].run /\ tasks[u].op = tasks[t].op
     /\ u = t \/ tasks[u].status = "running"}

----------------------------------------------------------------------------
\* run r has rejected in its batch operation op, a member without onError having failed
BatchThrew(r, op) ==
  /\ runs[r].phase = "rejected" /\ runs[r].pc = op
  /\ op <= Len(Steps(runs[r].wf)) /\ IsBatch(r, op)
  /\ \E u \in RejectedIn(r, op) : ~OperandHasOnError(tasks[u].step)

\* activation t belongs to a batch that has thrown, possibly through nested workflows
InThrownBatch(t) ==
  \E r \in DOMAIN runs : BatchThrew(r, runs[r].pc) /\ Under(tasks[t].run, r)

\* nothing stops activation t: its executor may still return, throw or call setState,
\* its handler may still return, and the run of its nested workflow is still awaited
StillRuns(t) ==
  /\ (IsPlainStep(t) /\ tasks[t].status = "running") =>
       /\ ENABLED ExecutorReturn(t)
       /\ \A error \in ThrownValues : ENABLED ExecutorThrow(t, error)
       /\ (tasks[t].setCalls < MaxSetStateCalls /\ DOMAIN StepPartial(tasks[t].step.id) /= {})
            => ENABLED ExecutorSetState(t)
  /\ tasks[t].status = "handling" => ENABLED OnErrorReturn(t)
  /\ (IsNested(t) /\ tasks[t].status = "running") =>
       LET child == tasks[t].child
       IN  /\ runs[child].phase \in {"resolved", "rejected"} => ENABLED NestedRunSettled(t)
           /\ runs[child].phase = "ready" =>
                (ENABLED OperationStart(child) \/ ENABLED RunReturn(child))

\* the lastOutput of the workflow of run r is still what the batch started from
KeepsLastOutput(r) ==
  wf[runs[r].wf].lastOutput = runs[r].opInputs[runs[r].pc]

\* C30: once a batch has thrown because a member without onError failed, every member
\* still in flight goes on (its executor can return, throw and call setState, its
\* handler can return, its nested run is awaited), a setState call it makes is applied
\* to the workflow's state, and lastOutput stays what it was when the batch started.
C30_SiblingsNotCancelled ==
  /\ [](\A r \in DOMAIN runs : BatchThrew(r, runs[r].pc) =>
          /\ KeepsLastOutput(r)
          /\ \A t \in DOMAIN tasks : Under(tasks[t].run, r) => StillRuns(t))
  /\ [][\A t \in DOMAIN tasks : (InThrownBatch(t) /\ CallsSetState(t)) =>
          \A k \in DOMAIN StepPartial(tasks[t].step.id) :
            /\ k \in DOMAIN heap'[wf'[tasks[t].wf].state]
            /\ heap'[wf'[tasks[t].wf].state][k] = StepPartial(tasks[t].step.id)[k]]_vars

\* in the parallel batch of program 2 the member P1 failed first and rejected the run;
\* P2 called setState after that and returned: the workflow's state shows its key and
\* lastOutput is still the output of the step before the batch
C30_Witness ==
  /\ prog = 2
  /\ \E r \in TopLevelRuns, t1, t2 \in DOMAIN tasks :
       /\ BatchThrew(r, 2)
       /\ tasks[t1].run = r /\ tasks[t1].op = 2 /\ tasks[t1].step.id = "P1"
       /\ tasks[t2].run = r /\ tasks[t2].op = 2 /\ tasks[t2].step.id = "P2"
       /\ tasks[t1].status = "rejected" /\ runs[r].error = tasks[t1].error
       /\ tasks[t2].status = "fulfilled" /\ tasks[t2].setCalls > 0
       /\ \A u \in TaskIdsOf(r, 2) : u /= t2 => tasks[u].setCalls = 0
       /\ tasks[t1].stateAtFailure < wf[runs[r].wf].state
       /\ Shows(wf[runs[r].wf].state, "p", 2)
       /\ KeepsLastOutput(r)
       /\ runs[r].opInputs[2] = StepOutput("A", FirstInput(r))


----------------------------------------------------------------------------
\* the members of operation op of run r include two nested workflows and a plain step
TwoNestedInBatch(r, op) ==
  /\ Steps(runs[r].wf)[op].type = "parallel"
  /\ \E t1, t2, t3 \in TaskIdsOf(r, op) :
       t1 /= t2 /\ IsNested(t1) /\ IsNested(t2) /\ IsPlainStep(t3)

\* C31: once a parallel batch with two nested workflows and plain steps among its
\* members has settled, the parent's state shows every key written on the workflow's
\* state by the plain members and by the steps of both nested workflows.
C31_TwoNestedInOneBatch ==
  \A r \in TopLevelRuns : \A op \in 1..Len(Steps(runs[r].wf)) :
    (Completed(r, op) /\ TwoNestedInBatch(r, op)) =>
      \A t \in DOMAIN tasks : (IsPlainStep(t) /\ Under(tasks[t].run, r)) =>
        \A k \in DOMAIN WrittenLiveBy(t) : Shows(wf[runs[r].wf].state, k, WrittenLiveBy(t)[k])


----------------------------------------------------------------------------
\* the members of operation op of run r that have called setState with key k
SettersOf(r, op, k) ==
  {t \in TaskIdsOf(r, op) :
     IsPlainStep(t) /\ tasks[t].setCalls > 0 /\ k \in DOMAIN StepPartial(tasks[t].step.id)}

\* the keys the steps of the programs pass to setState
PartialKeys == {"a", "h", "p", "c"}

\* operation op of run r is a parallel batch of plain steps
PlainParallel(r, op) ==
  /\ Steps(runs[r].wf)[op].type = "parallel"
  /\ \A t \in TaskIdsOf(r, op) : IsPlainStep(t)

\* C32: once a parallel batch of plain steps has settled, the workflow's state holds
\* every key a member passed to setState: with the member's value when no other member
\* wrote that key, with the value of one of its writers otherwise; and every setState
\* call leaves in the workflow's state the keys of its partial state with its values
\* and every other key as it was, so the value of a shared key is the one merged last.
C32_NoLostUpdate ==
  /\ [](\A r \in TopLevelRuns : \A op \in 1..Len(Steps(runs[r].wf)) :
          (Completed(r, op) /\ PlainParallel(r, op) /\ op = Len(Steps(runs[r].wf))) =>
            \A k \in PartialKeys : SettersOf(r, op, k) /= {} =>
              /\ k \in DOMAIN heap[wf[runs[r].wf].state]
              /\ \E t \in SettersOf(r, op, k) :
                   heap[wf[runs[r].wf].state][k] = StepPartial(tasks[t].step.id)[k])
  /\ [][\A t \in DOMAIN tasks : CallsSetState(t) =>
          LET before == heap[wf[tasks[t].wf].state]
              after == heap'[wf'[tasks[t].wf].state]
              partial == StepPartial(tasks[t].step.id)
          IN  /\ DOMAIN after = DOMAIN before \cup DOMAIN partial
              /\ \A k \in DOMAIN partial : after[k] = partial[k]
              /\ \A k \in DOMAIN before \ DOMAIN partial : after[k] = before[k]]_vars

\* the batch of program 8 has settled after its three members called setState: the
\* state holds A's key, and under the key P1 and P2 share the value of P2
C32_Witness ==
  /\ prog = 8
  /\ \E r \in TopLevelRuns :
       /\ Completed(r, 1)
       /\ \A t \in TaskIdsOf(r, 1) : tasks[t].setCalls > 0
       /\ Cardinality(SettersOf(r, 1, "p")) = 2
       /\ Shows(wf[runs[r].wf].state, "a", 1)
       /\ Shows(wf[runs[r].wf].state, "p", 2)


----------------------------------------------------------------------------
\* the parentStepId of what run r invokes: the workflow id of r's workflow when r is
\* the run of a nested workflow, none at the top level
EnclosingWorkflow(r) == IF runs[r].parent = 0 THEN Absent ELSE runs[r].wf

\* C33: every runStepExecution activation carries the depth of its run, the number of
\* nested-workflow boundaries between that run and the run the caller started, and
\* as parentStepId the workflow id of the innermost nested workflow enclosing it.
C33_DepthAndParentId ==
  \A t \in DOMAIN tasks :
    /\ tasks[t].context.depth = Depth(tasks[t].run)
    /\ tasks[t].context.parentStepId = EnclosingWorkflow(tasks[t].run)

\* the step C1 of program 6 runs two nested workflows deep, inside the workflow inner
C33_Witness ==
  \E t \in DOMAIN tasks :
    /\ prog = 6 /\ IsPlainStep(t) /\ tasks[t].step.id = "C1"
    /\ Depth(tasks[t].run) = 2
    /\ tasks[t].context.depth = 2
    /\ tasks[t].context.parentStepId = "inner"
    /\ tasks[t].status = "fulfilled"


----------------------------------------------------------------------------
\* C34: in a run the caller started, every runStepExecution activation has depth 0 and
\* no parentStepId, and the activations of an addStep operation have no executionGroup.
C34_TopLevelDepthZero ==
  \A r \in TopLevelRuns : \A t \in DOMAIN tasks : tasks[t].run = r =>
    /\ tasks[t].context.depth = 0
    /\ tasks[t].context.parentStepId = Absent
    /\ Steps(runs[r].wf)[tasks[t].op].type = "sequential" =>
         tasks[t].context.executionGroup = Absent


----------------------------------------------------------------------------
\* C35: every activation started by an addStep operation, in the top-level workflow or
\* in a nested one, has executionType "sequential" and no executionGroup.
C35_SequentialHasNoGroup ==
  \A t \in DOMAIN tasks :
    Steps(tasks[t].wf)[tasks[t].op].type = "sequential" =>
      /\ tasks[t].context.executionType = "sequential"
      /\ tasks[t].context.executionGroup = Absent


----------------------------------------------------------------------------
\* what run() on workflow w returns for the input v when it runs alone and no step
\* fails (workflows built with addStep only): each step's output feeds the next one
RECURSIVE AloneOutput(_, _, _)
AloneOutput(w, op, v) ==
  IF op > Len(Steps(w)) THEN v
  ELSE LET step == Steps(w)[op].members[1]
       IN  AloneOutput(w, op + 1,
                       IF step.kind = "workflow"
                       THEN AloneOutput(step.workflowId, 1, v)
                       ELSE StepOutput(step.id, v))

\* no executor failed in run r or in the nested runs under it
NoFailureUnder(r) ==
  \A t \in DOMAIN tasks : Under(tasks[t].run, r) => ~Threw(t)

\* C36: a run() the caller started, overlapping or not with another run() of the same
\* instance, resolves with the output it would have alone and hands its own run id to
\* the nested workflows it starts (no executor failing, workflows built with addStep).
C36_OverlappingRunsIndependent ==
  \A r \in TopLevelRuns :
    ((\A w \in WorkflowIds : OnlyAddStep(w)) /\ NoFailureUnder(r)) =>
      /\ runs[r].phase = "resolved" =>
           runs[r].result = AloneOutput(runs[r].wf, 1, FirstInput(r))
      /\ \A c \in DOMAIN runs :
           (runs[c].parent /= 0 /\ tasks[runs[c].parent].run = r) =>
             runs[c].runIdArg = NestedRunId(runs[r].runIdArg, runs[c].wf)


----------------------------------------------------------------------------
\* the activations of run r and of the nested runs under it
ActivationsUnder(r) == {t \in DOMAIN tasks : Under(tasks[t].run, r)}

\* what the user code of activation t did: deterministic executors and handlers do
\* the same in both runs
Behaviour(t) ==
  [step |-> tasks[t].step, thrown |-> tasks[t].thrown, setCalls |-> tasks[t].setCalls,
   writes |-> tasks[t].writes, staleWrite |-> tasks[t].staleWrite, did |-> tasks[t].did,
   handled |-> [i \in DOMAIN tasks[t].onErrorCalls |-> tasks[t].onErrorCalls[i].error],
   status |-> tasks[t].status]

\* the runs r1 and r2, r2 called after r1 had settled, were given the same arguments
\* and their user code behaved the same, activation by activation
SameRun(r1, r2) ==
  /\ r1 < r2 /\ runs[r1].wf = runs[r2].wf
  /\ runs[r1].runIdArg = runs[r2].runIdArg
  /\ runs[r1].initialInput = runs[r2].initialInput
  /\ runs[r1].initialState = runs[r2].initialState
  /\ runs[r1].phase = "resolved" /\ runs[r2].phase = "resolved"
  /\ LET n == Cardinality(ActivationsUnder(r1))
     IN  /\ ActivationsUnder(r2) = {t + n : t \in ActivationsUnder(r1)}
         /\ \A t \in ActivationsUnder(r1) : Behaviour(t + n) = Behaviour(t)

----------------------------------------------------------------------------
\* the runner works with a pool of workers and one of its tasks has rejected
PoolWithFailure ==
  runner.mode = "pool" /\ \E i \in DOMAIN runner.status : runner.status[i] = "failed"

\* the task that rejected first
FirstFailed ==
  LET k == CHOOSE k \in DOMAIN runner.order :
             /\ runner.status[runner.order[k] + 1] = "failed"
             /\ \A j \in 1..(k - 1) : runner.status[runner.order[j] + 1] /= "failed"
  IN  runner.order[k]

\* task i, in flight, rejects in the step from the current state to the next
RejectsNow(i) == runner.status[i + 1] = "running" /\ runner'.status[i + 1] = "failed"
\* task i, in flight, fulfils in the step from the current state to the next
FulfilsNow(i) == runner.status[i + 1] = "running" /\ runner'.status[i + 1] = "done"

\* C38: in a pool (limit below the number of tasks) in which a task has rejected, the
\* function has rejected with the error of the task that rejected first; the step in
\* which a task rejects starts no task and leaves its worker stopped for good; a task
\* in flight can still fulfil, and the worker of a task that fulfils starts the next
\* task not yet started, so that the tasks are all started once a worker has found
\* the list exhausted.
C38_RunnerOnFailure ==
  /\ [](PoolWithFailure =>
          /\ runner.outcome = "rejected" /\ runner.error = TaskError(FirstFailed)
          /\ \A i \in 0..(runner.n - 1) :
               runner.status[i + 1] = "running" => ENABLED TaskFulfil(i)
          /\ (\E w \in DOMAIN runner.workers : runner.workers[w].state = "returned") =>
               \A i \in DOMAIN runner.starts : runner.starts[i] = 1)
  /\ [][runner.mode = "pool" =>
          /\ \A i \in 0..(runner.n - 1) : RejectsNow(i) =>
               /\ runner'.starts = runner.starts /\ runner'.index = runner.index
               /\ runner'.workers[WorkerOf(runner, i)].state = "threw"
          /\ \A w \in DOMAIN runner.workers : runner.workers[w].state = "threw" =>
               runner'.workers[w] = runner.workers[w]
          /\ \A i \in 0..(runner.n - 1) :
               (FulfilsNow(i) /\ PoolWithFailure /\ runner.index < runner.n) =>
                 /\ runner'.status[runner.index + 1] = "running"
                 /\ runner'.workers[WorkerOf(runner, i)] =
                      [state |-> "awaiting", task |-> runner.index]]_vars

\* three tasks, two workers: task 0 rejected first, then task 1 fulfilled and its
\* worker ran task 2 and found the list exhausted
C38_Witness ==
  /\ runner.mode = "pool" /\ runner.n = 3 /\ runner.limit = Limit(2)
  /\ runner.order = <<0, 1, 2>>
  /\ runner.status = <<"failed", "done", "done">>
  /\ runner.outcome = "rejected" /\ runner.error = TaskError(0)
  /\ runner.workers[1].state = "threw"
  /\ runner.workers[2].state = "returned"


----------------------------------------------------------------------------
\* every run() the caller made has settled
RunsSettled == \A r \in TopLevelRuns : runs[r].phase \in {"resolved", "rejected"}

\* C39: under the scheduling of the event loop, with every executor, handler and task
\* settling, a called run() eventually settles, whatever operations the workflow is
\* made of, and a called runWithConcurrencyLimit eventually settles, whatever the limit.
C39_Termination ==
  /\ called ~> RunsSettled
  /\ (runner.mode /= "idle") ~> (runner.outcome /= "pending")

\* the run of program 5 (a step, a parallel batch with a nested workflow, a step) has
\* resolved after all its steps returned
C39_Witness ==
  /\ prog = 5 /\ called /\ RunsSettled
  /\ \E r \in TopLevelRuns :
       /\ runs[r].phase = "resolved"
       /\ Completed(r, 3)
       /\ \E t \in DOMAIN tasks : IsNested(t) /\ tasks[t].run = r /\ tasks[t].status = "fulfilled"
       /\ \A t \in DOMAIN tasks : tasks[t].status = "fulfilled"


----------------------------------------------------------------------------
(* C40 *)

\* the errors caught so far for which is503WithRetryAfter returns a number
Retryable(error) == ~is503WithRetryAfter(error).null

\* the first k caught errors are those of the calls 1..k of fn, all of them retryable
RetriedThrough(k) ==
  \A i \in 1..k : retry503.caught[i].of = i /\ Retryable(retry503.caught[i])

\* C40: with503Retry calls fn at most 6 times (the first call and MAX_503_RETRIES = 5
\* retries); when a call of fn succeeds it returns that call's result, every earlier call
\* having failed with a retryable error, and fn is not called again; when it throws, it
\* throws the error of the last call of fn, which is either the first error for which
\* is503WithRetryAfter returns null or the sixth consecutive retryable error; until then
\* every call of fn but the pending one failed with a retryable error.
C40_Bounded503Retry ==
  /\ [](/\ retry503.calls <= 6
        /\ retry503.phase = "returned" =>
             /\ retry503.result = FnResult(retry503.calls)
             /\ Len(retry503.caught) = retry503.calls - 1
             /\ RetriedThrough(retry503.calls - 1)
        /\ retry503.phase = "threw" =>
             /\ Len(retry503.caught) = retry503.calls
             /\ retry503.error = retry503.caught[retry503.calls]
             /\ retry503.error.of = retry503.calls
             /\ RetriedThrough(retry503.calls - 1)
             /\ \/ ~Retryable(retry503.error)
                \/ Retryable(retry503.error) /\ retry503.calls = 6
        /\ retry503.phase = "calling" =>
             /\ Len(retry503.caught) = retry503.calls - 1
             /\ RetriedThrough(retry503.calls - 1)
        /\ retry503.phase = "waiting" =>
             /\ Len(retry503.caught) = retry503.calls
             /\ RetriedThrough(retry503.calls)
             /\ retry503.calls < 6)
  /\ [][retry503.phase \in {"returned", "threw"} => retry503' = retry503]_vars

\* the sixth consecutive retryable error was rethrown
C40_Witness ==
  /\ retry503.phase = "threw"
  /\ retry503.calls = 6
  /\ Retryable(retry503.error)
  /\ RetriedThrough(6)

====
